---- MODULE Spec2Model ----
(***************************************************************************)
(* State machine of vkb::CommandBuffer (framework/core/command_buffer.cpp, *)
(* kept as src/unnamed/part_000): the recording lifecycle, the tracked     *)
(* PipelineState / ResourceBindingState / descriptor_set_layout_state and  *)
(* the two flush algorithms run by every draw and dispatch.                *)
(*                                                                         *)
(* The build modelled is the one without assertions (NDEBUG): an assert is *)
(* compiled out and the statement after it runs.                           *)
(*                                                                         *)
(* PipelineState, ResourceBindingState, PipelineLayout, DescriptorSetLayout*)
(* and RenderPass are classes of the repository whose code is not among    *)
(* the source files; they are modelled from their specification (sections  *)
(* 3, 4.1, 4.2 and 6).                                                     *)
(***************************************************************************)
EXTENDS Integers, Sequences, FiniteSets, TLC

\* ------------------------------------------------------------------------
\* Bounds of the model
\* ------------------------------------------------------------------------
\* Storage slots in which a CommandBuffer object can live.
NumCB == 2
\* Command-buffer handles the driver hands out (vkAllocateCommandBuffers).
MaxHandles == 2
\* Values a fixed-function state block takes besides its default 0.
MaxStateValue == 1

\* ------------------------------------------------------------------------
\* Program constants and the objects of the device
\* ------------------------------------------------------------------------
VK_NULL_HANDLE == 0

CBs == 1..NumCB
Handles == 1..MaxHandles
\* Descriptor-set indices a caller binds resources to.
SetIdx == {0, 1}

States == {"Invalid", "Initial", "Recording", "Executable"}
Levels == {"PRIMARY", "SECONDARY"}
ResetModes == {"ResetPool", "ResetIndividually"}
BindPoints == {"GRAPHICS", "COMPUTE"}
\* What vkResetCommandBuffer returns.
VkResults == {"VK_SUCCESS", "VK_ERROR_OUT_OF_DEVICE_MEMORY"}

EmptyMap == [x \in {} |-> 0]

Put(m, k, v) == [x \in DOMAIN m \cup {k} |-> IF x = k THEN v ELSE m[x]]

Remove(m, ks) == [x \in DOMAIN m \ ks |-> m[x]]

\* Descriptor-set layouts: binding index -> descriptor type.  Identified by
\* their handle (the index into this table).
DescriptorSetLayouts ==
    <<  \* L1
        (0 :> "UNIFORM_BUFFER" @@ 1 :> "COMBINED_IMAGE_SAMPLER"),
        \* L2
        (0 :> "UNIFORM_BUFFER_DYNAMIC" @@ 1 :> "STORAGE_IMAGE"),
        \* L3
        (0 :> "STORAGE_BUFFER" @@ 1 :> "INPUT_ATTACHMENT"),
        \* L4
        (0 :> "UNIFORM_BUFFER_DYNAMIC" @@ 1 :> "UNIFORM_BUFFER"
           @@ 2 :> "STORAGE_BUFFER_DYNAMIC") >>

\* Pipeline layouts: set index -> handle of the set's DescriptorSetLayout.
\*   A: set 0 with L1.  B: set 0 with L2, set 1 with L3.  C: set 0 with L1
\*   (the same set-layout object as A), set 1 with L3.  D: set 0 with L4.
\*   E: set 0 with L1, set 1 with L2.
PipelineLayouts ==
    <<  (0 :> 1),
        (0 :> 2 @@ 1 :> 3),
        (0 :> 1 @@ 1 :> 3),
        (0 :> 4),
        (0 :> 1 @@ 1 :> 2) >>

PipelineLayoutIds == DOMAIN PipelineLayouts

\* PipelineLayout::has_set_layout
has_set_layout(pl, set) == set \in DOMAIN PipelineLayouts[pl]

\* PipelineLayout::get_set_layout
get_set_layout(pl, set) == PipelineLayouts[pl][set]

\* PipelineLayout::get_bindings: the set indices the layout declares
get_bindings(pl) == DOMAIN PipelineLayouts[pl]

\* DescriptorSetLayout::get_layout_binding
has_layout_binding(dsl, binding) == binding \in DOMAIN DescriptorSetLayouts[dsl]

get_layout_binding(dsl, binding) == DescriptorSetLayouts[dsl][binding]

\* Push-constant ranges the pipeline layouts declare: A, D and E none, B
\* one range for the vertex stage, C one range per stage.
PushConstantRanges ==
    <<  << >>,
        << [offset |-> 0, size |-> 8, stages |-> {"VERTEX"}] >>,
        << [offset |-> 0, size |-> 4, stages |-> {"VERTEX"}],
           [offset |-> 4, size |-> 4, stages |-> {"FRAGMENT"}] >>,
        << >>,
        << >> >>

\* PipelineLayout::get_push_constant_range_stage: the stages of the declared
\* ranges that cover [offset, offset + size); none (0) if no range does.
get_push_constant_range_stage(pl, offset, size) ==
    UNION {PushConstantRanges[pl][i].stages : i \in
              {j \in DOMAIN PushConstantRanges[pl] :
                  /\ offset >= PushConstantRanges[pl][j].offset
                  /\ offset + size <= PushConstantRanges[pl][j].offset
                                          + PushConstantRanges[pl][j].size}}

\* Render passes the ResourceCache can resolve: per subpass, the number of
\* colour outputs.  Identified by their handle (the index into this table).
RenderPasses ==
    <<  <<1, 2>>,
        <<0>> >>

RenderPassIds == DOMAIN RenderPasses

\* RenderPass::get_color_output_count
get_color_output_count(rp, subpass) == RenderPasses[rp][subpass + 1]

subpass_count(rp) == Len(RenderPasses[rp])

\* ------------------------------------------------------------------------
\* PipelineState (section 4.1): a state container with a dirty flag
\* ------------------------------------------------------------------------
StateBlocks ==
    {"viewport", "vertex_input", "input_assembly", "rasterization",
     "multisample", "depth_stencil"}

DefaultColorBlendState == [logic_op |-> 0, attachments |-> 0]

DefaultPipelineState ==
    [ pipeline_layout   |-> VK_NULL_HANDLE,
      render_pass       |-> VK_NULL_HANDLE,
      specialization    |-> EmptyMap,
      blocks            |-> [b \in StateBlocks |-> 0],
      color_blend_state |-> DefaultColorBlendState,
      subpass_index     |-> 0,
      dirty             |-> FALSE ]

\* PipelineState::reset
PipelineState_reset(ps) == DefaultPipelineState

\* Every set_* mutator: store and mark dirty only when the value differs.
PipelineState_set(ps, field, value) ==
    IF ps[field] = value THEN ps
    ELSE [ps EXCEPT ![field] = value, !.dirty = TRUE]

PipelineState_set_block(ps, block, value) ==
    IF ps.blocks[block] = value THEN ps
    ELSE [ps EXCEPT !.blocks[block] = value, !.dirty = TRUE]

PipelineState_set_pipeline_layout(ps, pl) == PipelineState_set(ps, "pipeline_layout", pl)

PipelineState_set_render_pass(ps, rp) == PipelineState_set(ps, "render_pass", rp)

PipelineState_set_subpass_index(ps, i) == PipelineState_set(ps, "subpass_index", i)

PipelineState_set_color_blend_state(ps, cbs) == PipelineState_set(ps, "color_blend_state", cbs)

PipelineState_set_specialization_constant(ps, id, data) ==
    IF id \in DOMAIN ps.specialization /\ ps.specialization[id] = data THEN ps
    ELSE [ps EXCEPT !.specialization = Put(ps.specialization, id, data), !.dirty = TRUE]

PipelineState_clear_dirty(ps) == [ps EXCEPT !.dirty = FALSE]

\* The structural description a pipeline is resolved from.
PipelineKey(ps) == [ps EXCEPT !.dirty = FALSE]

\* ------------------------------------------------------------------------
\* ResourceBindingState (section 4.2)
\* ------------------------------------------------------------------------
DefaultResourceBindingState == [dirty |-> FALSE, set_bindings |-> EmptyMap]

DefaultSetBindings == [dirty |-> FALSE, resource_bindings |-> EmptyMap]

\* A ResourceInfo: exactly one of the three variants is populated.
BufferInfo(buffer, offset, range) ==
    [buffer |-> buffer, offset |-> offset, range |-> range,
     image_view |-> VK_NULL_HANDLE, sampler |-> VK_NULL_HANDLE]

ImageInfo(image_view, sampler) ==
    [buffer |-> VK_NULL_HANDLE, offset |-> 0, range |-> 0,
     image_view |-> image_view, sampler |-> sampler]

\* ResourceBindingState::reset
ResourceBindingState_reset(rbs) == DefaultResourceBindingState

\* bind_buffer / bind_image / bind_input: store the entry at
\* (set, binding, array_element); the set (and the state) becomes dirty
\* when the entry is new or differs from the one stored.
ResourceBindingState_bind(rbs, info, set, binding, array_element) ==
    LET old == IF set \in DOMAIN rbs.set_bindings
               THEN rbs.set_bindings[set] ELSE DefaultSetBindings
        key == <<binding, array_element>>
        same == key \in DOMAIN old.resource_bindings
                /\ old.resource_bindings[key] = info
        new == [dirty |-> old.dirty \/ ~same,
                resource_bindings |-> Put(old.resource_bindings, key, info)]
    IN  [dirty |-> rbs.dirty \/ ~same,
         set_bindings |-> Put(rbs.set_bindings, set, new)]

\* ResourceBindingState::clear_dirty()
ResourceBindingState_clear_dirty(rbs) == [rbs EXCEPT !.dirty = FALSE]

\* ResourceBindingState::clear_dirty(set)
ResourceBindingState_clear_dirty_set(rbs, set) ==
    [rbs EXCEPT !.set_bindings[set].dirty = FALSE]

\* ------------------------------------------------------------------------
\* State
\* ------------------------------------------------------------------------
VARIABLES
    object,                       \* slot -> "none" | "live"
    level,                        \* CommandBuffer::level
    handle,                       \* CommandBuffer::handle
    state,                        \* CommandBuffer::state
    pipeline_state,               \* CommandBuffer::pipeline_state
    resource_binding_state,       \* CommandBuffer::resource_binding_state
    descriptor_set_layout_state,  \* CommandBuffer::descriptor_set_layout_state
    current_render_pass,          \* CommandBuffer::current_render_pass
    pool_reset_mode,              \* command_pool.get_reset_mode()
    allocated,                    \* handles the driver has handed out
    freed,                        \* handle -> number of vkFreeCommandBuffers
    render_pass_active,           \* handle -> a render pass instance is open
    bound_pipeline,               \* handle -> bind points with a pipeline bound
    last,                         \* the call that made the last step
    result,                       \* what that call returned
    emitted                       \* the cache requests and vkCmd* it made

vars ==
    << object, level, handle, state, pipeline_state, resource_binding_state,
       descriptor_set_layout_state, current_render_pass, pool_reset_mode,
       allocated, freed, render_pass_active, bound_pipeline, last, result, emitted >>

\* The bind points at which a command buffer that has recorded no
\* vkCmdBindPipeline holds a pipeline: none.
NoPipelineBound == {}

NoRenderPass == [render_pass |-> VK_NULL_HANDLE, framebuffer |-> VK_NULL_HANDLE]

\* A pointer value that is neither null nor the address of an object.
WildPointer == VK_NULL_HANDLE - 1

\* The values a pointer can hold: null, the address of a render pass (of
\* its framebuffer), or neither.
Pointers == {VK_NULL_HANDLE, WildPointer} \cup RenderPassIds

\* What current_render_pass can hold in a new object: no constructor
\* initialises it, so it is what the storage held, two pointers of any
\* values, those an earlier object left there included.
Uninitialised == [render_pass : Pointers, framebuffer : Pointers]

\* The pointer is the address of a render pass (of its framebuffer).
IsObject(pointer) == pointer \in RenderPassIds

DefaultTracked ==
    [ pipeline_state              |-> DefaultPipelineState,
      resource_binding_state      |-> DefaultResourceBindingState,
      descriptor_set_layout_state |-> EmptyMap,
      current_render_pass         |-> NoRenderPass ]

\* The members a CommandBuffer object holds besides pool, level, handle and
\* state.
tracked(cb) ==
    [ pipeline_state              |-> pipeline_state[cb],
      resource_binding_state      |-> resource_binding_state[cb],
      descriptor_set_layout_state |-> descriptor_set_layout_state[cb],
      current_render_pass         |-> current_render_pass[cb] ]

Init ==
    /\ object = [cb \in CBs |-> "none"]
    /\ level = [cb \in CBs |-> "PRIMARY"]
    /\ handle = [cb \in CBs |-> VK_NULL_HANDLE]
    /\ state = [cb \in CBs |-> "Invalid"]
    /\ pipeline_state = [cb \in CBs |-> DefaultPipelineState]
    /\ resource_binding_state = [cb \in CBs |-> DefaultResourceBindingState]
    /\ descriptor_set_layout_state = [cb \in CBs |-> EmptyMap]
    /\ current_render_pass = [cb \in CBs |-> NoRenderPass]
    /\ pool_reset_mode = [cb \in CBs |-> "ResetPool"]
    /\ allocated = {}
    /\ freed = [h \in Handles |-> 0]
    /\ render_pass_active = [h \in Handles |-> FALSE]
    /\ bound_pipeline = [h \in Handles |-> NoPipelineBound]
    /\ last = [op |-> "none", cb |-> 0, from |-> "Invalid", before |-> DefaultTracked]
    /\ result = "void"
    /\ emitted = << >>

\* What a call leaves alone.
UnchangedObjects == UNCHANGED << object, level, handle, pool_reset_mode, allocated, freed >>

UnchangedTracked ==
    UNCHANGED << pipeline_state, resource_binding_state,
                 descriptor_set_layout_state, current_render_pass >>

\* The step's call: its name, its recorder, the lifecycle state it found and,
\* for the calls of SnapshotOps, the tracked members it found.
FlushOps == {"draw", "draw_indexed", "draw_indexed_indirect", "dispatch", "dispatch_indirect"}

SnapshotOps == {"begin", "begin_render_pass", "next_subpass"} \cup FlushOps

Call(op, cb) ==
    last' = [op |-> op, cb |-> cb, from |-> state[cb],
             before |-> IF op \in SnapshotOps THEN tracked(cb) ELSE DefaultTracked]

\* ------------------------------------------------------------------------
\* Construction, move, destruction
\* ------------------------------------------------------------------------
\* CommandBuffer::CommandBuffer(CommandPool &, VkCommandBufferLevel): a new
\* object in a free slot; the driver hands out a handle it never gave before.
\* current_render_pass is not initialised: it is what the storage held.
\* (A failed allocation throws and leaves no object.)
CommandBuffer(cb, lvl, pool_mode, storage) ==
    /\ object[cb] = "none"
    /\ \E h \in Handles \ allocated :
        /\ \A g \in Handles \ allocated : h <= g
        /\ allocated' = allocated \cup {h}
        /\ handle' = [handle EXCEPT ![cb] = h]
    /\ object' = [object EXCEPT ![cb] = "live"]
    /\ level' = [level EXCEPT ![cb] = lvl]
    /\ pool_reset_mode' = [pool_reset_mode EXCEPT ![cb] = pool_mode]
    /\ state' = [state EXCEPT ![cb] = "Initial"]
    /\ pipeline_state' = [pipeline_state EXCEPT ![cb] = DefaultPipelineState]
    /\ resource_binding_state' = [resource_binding_state EXCEPT ![cb] = DefaultResourceBindingState]
    /\ descriptor_set_layout_state' = [descriptor_set_layout_state EXCEPT ![cb] = EmptyMap]
    /\ current_render_pass' = [current_render_pass EXCEPT ![cb] = storage]
    /\ Call("CommandBuffer", cb)
    /\ result' = "void"
    /\ emitted' = << >>
    /\ UNCHANGED << freed, render_pass_active, bound_pipeline >>

\* A move that copies: the source keeps its handle and its state.
CommandBuffer_copy(cb, other, storage) ==
    /\ object[cb] = "none"
    /\ object[other] = "live"
    /\ object' = [object EXCEPT ![cb] = "live"]
    /\ pool_reset_mode' = [pool_reset_mode EXCEPT ![cb] = pool_reset_mode[other]]
    /\ level' = [level EXCEPT ![cb] = level[other]]
    /\ handle' = [handle EXCEPT ![cb] = handle[other]]
    /\ state' = [state EXCEPT ![cb] = state[other]]
    /\ pipeline_state' = [pipeline_state EXCEPT ![cb] = DefaultPipelineState]
    /\ resource_binding_state' = [resource_binding_state EXCEPT ![cb] = DefaultResourceBindingState]
    /\ descriptor_set_layout_state' = [descriptor_set_layout_state EXCEPT ![cb] = EmptyMap]
    /\ current_render_pass' = [current_render_pass EXCEPT ![cb] = storage]
    /\ Call("CommandBuffer_move", cb)
    /\ result' = "void"
    /\ emitted' = << >>
    /\ UNCHANGED << allocated, freed, render_pass_active, bound_pipeline >>

\* CommandBuffer::CommandBuffer(CommandBuffer &&other): a new object in the
\* free slot cb, built from the live object other.
CommandBuffer_move(cb, other, storage) ==
    /\ object[cb] = "none"
    /\ object[other] = "live"
    /\ object' = [object EXCEPT ![cb] = "live"]
    /\ pool_reset_mode' = [pool_reset_mode EXCEPT ![cb] = pool_reset_mode[other]]
    /\ level' = [level EXCEPT ![cb] = level[other]]
    /\ handle' = [handle EXCEPT ![cb] = handle[other], ![other] = VK_NULL_HANDLE]
    /\ state' = [state EXCEPT ![cb] = state[other], ![other] = "Invalid"]
    /\ pipeline_state' = [pipeline_state EXCEPT ![cb] = DefaultPipelineState]
    /\ resource_binding_state' = [resource_binding_state EXCEPT ![cb] = DefaultResourceBindingState]
    /\ descriptor_set_layout_state' = [descriptor_set_layout_state EXCEPT ![cb] = EmptyMap]
    /\ current_render_pass' = [current_render_pass EXCEPT ![cb] = storage]
    /\ Call("CommandBuffer_move", cb)
    /\ result' = "void"
    /\ emitted' = << >>
    /\ UNCHANGED << allocated, freed, render_pass_active, bound_pipeline >>

\* CommandBuffer::~CommandBuffer: the slot is free again afterwards.
CommandBuffer_destroy(cb) ==
    /\ object[cb] = "live"
    /\ IF handle[cb] # VK_NULL_HANDLE
       THEN /\ freed' = [freed EXCEPT ![handle[cb]] = @ + 1]
            /\ emitted' = << [cmd |-> "vkFreeCommandBuffers", handle |-> handle[cb]] >>
       ELSE /\ freed' = freed
            /\ emitted' = << >>
    /\ object' = [object EXCEPT ![cb] = "none"]
    /\ level' = [level EXCEPT ![cb] = "PRIMARY"]
    /\ handle' = [handle EXCEPT ![cb] = VK_NULL_HANDLE]
    /\ state' = [state EXCEPT ![cb] = "Invalid"]
    /\ pool_reset_mode' = [pool_reset_mode EXCEPT ![cb] = "ResetPool"]
    /\ pipeline_state' = [pipeline_state EXCEPT ![cb] = DefaultPipelineState]
    /\ resource_binding_state' = [resource_binding_state EXCEPT ![cb] = DefaultResourceBindingState]
    /\ descriptor_set_layout_state' = [descriptor_set_layout_state EXCEPT ![cb] = EmptyMap]
    /\ current_render_pass' = [current_render_pass EXCEPT ![cb] = NoRenderPass]
    /\ Call("CommandBuffer_destroy", cb)
    /\ result' = "void"
    /\ UNCHANGED << allocated, render_pass_active, bound_pipeline >>

\* ------------------------------------------------------------------------
\* Recording lifecycle
\* ------------------------------------------------------------------------
\* A recorder that takes Executable for "recording".
is_recording_executable(cb) == state[cb] = "Executable"

\* CommandBuffer::is_recording
is_recording(cb) == state[cb] = "Recording"

\* A begin that forgets resource_binding_state.reset().
reset_state_keeps_bindings(cb) ==
    /\ pipeline_state' = [pipeline_state EXCEPT ![cb] = PipelineState_reset(@)]
    /\ UNCHANGED resource_binding_state
    /\ descriptor_set_layout_state' =
           [descriptor_set_layout_state EXCEPT ![cb] = EmptyMap]

\* "Reset state" of begin: the three tracked members are reset.
reset_state(cb) ==
    /\ pipeline_state' = [pipeline_state EXCEPT ![cb] = PipelineState_reset(@)]
    /\ resource_binding_state' =
           [resource_binding_state EXCEPT ![cb] = ResourceBindingState_reset(@)]
    /\ descriptor_set_layout_state' =
           [descriptor_set_layout_state EXCEPT ![cb] = EmptyMap]

\* CommandBuffer::begin(flags, primary_cmd_buf).  A secondary recorder is
\* given a live primary whose context holds a render pass and a framebuffer
\* (it dereferences the primary and both pointers).
begin(cb, primary_cmd_buf) ==
    /\ object[cb] = "live"
    /\ IF level[cb] = "SECONDARY"
       THEN /\ primary_cmd_buf \in CBs \ {cb}
            /\ object[primary_cmd_buf] = "live"
            /\ IsObject(current_render_pass[primary_cmd_buf].render_pass)
            /\ IsObject(current_render_pass[primary_cmd_buf].framebuffer)
       ELSE primary_cmd_buf = 0
    /\ Call("begin", cb)
    /\ UnchangedObjects
    /\ IF is_recording(cb)
       THEN /\ result' = "VK_NOT_READY"
            /\ emitted' = << >>
            /\ UNCHANGED << state, render_pass_active, bound_pipeline >>
            /\ UnchangedTracked
       ELSE /\ state' = [state EXCEPT ![cb] = "Recording"]
            /\ reset_state(cb)
            /\ current_render_pass' =
                   IF level[cb] = "SECONDARY"
                   THEN [current_render_pass EXCEPT ![cb] = current_render_pass[primary_cmd_buf]]
                   ELSE current_render_pass
            /\ emitted' =
                   << [cmd |-> "vkBeginCommandBuffer",
                       handle |-> handle[cb],
                       inherits |-> level[cb] = "SECONDARY",
                       renderPass |-> IF level[cb] = "SECONDARY"
                                      THEN current_render_pass[primary_cmd_buf].render_pass
                                      ELSE VK_NULL_HANDLE,
                       framebuffer |-> IF level[cb] = "SECONDARY"
                                       THEN current_render_pass[primary_cmd_buf].framebuffer
                                       ELSE VK_NULL_HANDLE,
                       subpass |-> PipelineState_reset(pipeline_state[cb]).subpass_index] >>
            /\ render_pass_active' =
                   IF handle[cb] \in Handles
                   THEN [render_pass_active EXCEPT ![handle[cb]] = level[cb] = "SECONDARY"]
                   ELSE render_pass_active
            /\ bound_pipeline' =
                   IF handle[cb] \in Handles
                   THEN [bound_pipeline EXCEPT ![handle[cb]] = NoPipelineBound]
                   ELSE bound_pipeline
            /\ result' = "VK_SUCCESS"

\* An end that does not look at the lifecycle state.
end_unchecked(cb) ==
    /\ object[cb] = "live"
    /\ Call("end", cb)
    /\ UnchangedObjects
    /\ UnchangedTracked
    /\ UNCHANGED << render_pass_active, bound_pipeline >>
    /\ emitted' = << [cmd |-> "vkEndCommandBuffer", handle |-> handle[cb]] >>
    /\ state' = [state EXCEPT ![cb] = "Executable"]
    /\ result' = "VK_SUCCESS"

\* CommandBuffer::end
end(cb) ==
    /\ object[cb] = "live"
    /\ Call("end", cb)
    /\ UnchangedObjects
    /\ UnchangedTracked
    /\ UNCHANGED << render_pass_active, bound_pipeline >>
    /\ IF ~is_recording(cb)
       THEN /\ result' = "VK_NOT_READY"
            /\ emitted' = << >>
            /\ UNCHANGED state
       ELSE /\ emitted' = << [cmd |-> "vkEndCommandBuffer", handle |-> handle[cb]] >>
            /\ state' = [state EXCEPT ![cb] = "Executable"]
            /\ result' = "VK_SUCCESS"

\* A reset that returns to Initial only when it resets the buffer itself.
reset_individually_only(cb, reset_mode, vk_result) ==
    /\ object[cb] = "live"
    /\ Call("reset", cb)
    /\ UnchangedObjects
    /\ UnchangedTracked
    /\ UNCHANGED << render_pass_active, bound_pipeline >>
    /\ IF reset_mode = "ResetIndividually"
       THEN /\ state' = [state EXCEPT ![cb] = "Initial"]
            /\ result' = vk_result
            /\ emitted' = << [cmd |-> "vkResetCommandBuffer", handle |-> handle[cb]] >>
       ELSE /\ vk_result = "VK_SUCCESS"
            /\ UNCHANGED state
            /\ result' = "VK_SUCCESS"
            /\ emitted' = << >>

\* CommandBuffer::reset(reset_mode).  vk_result is what vkResetCommandBuffer
\* returns when it is called.
reset(cb, reset_mode, vk_result) ==
    /\ object[cb] = "live"
    /\ Call("reset", cb)
    /\ UnchangedObjects
    /\ UnchangedTracked
    /\ UNCHANGED << render_pass_active, bound_pipeline >>
    /\ state' = [state EXCEPT ![cb] = "Initial"]
    /\ IF reset_mode = "ResetIndividually"
       THEN /\ result' = vk_result
            /\ emitted' = << [cmd |-> "vkResetCommandBuffer", handle |-> handle[cb]] >>
       ELSE /\ vk_result = "VK_SUCCESS"
            /\ result' = "VK_SUCCESS"
            /\ emitted' = << >>

\* ------------------------------------------------------------------------
\* State setters and resource binds: they reach PipelineState and
\* ResourceBindingState and emit nothing.
\* ------------------------------------------------------------------------
SetPipelineState(cb, ps) ==
    /\ object[cb] = "live"
    /\ pipeline_state' = [pipeline_state EXCEPT ![cb] = ps]
    /\ UnchangedObjects
    /\ UNCHANGED << state, resource_binding_state, descriptor_set_layout_state,
                    current_render_pass, render_pass_active, bound_pipeline >>
    /\ result' = "void"
    /\ emitted' = << >>

\* CommandBuffer::bind_pipeline_layout
bind_pipeline_layout(cb, pipeline_layout) ==
    /\ Call("bind_pipeline_layout", cb)
    /\ SetPipelineState(cb, PipelineState_set_pipeline_layout(pipeline_state[cb], pipeline_layout))

\* CommandBuffer::set_specialization_constant
set_specialization_constant(cb, constant_id, data) ==
    /\ Call("set_specialization_constant", cb)
    /\ SetPipelineState(cb, PipelineState_set_specialization_constant(pipeline_state[cb], constant_id, data))

\* A setter that forwards its argument to the mutator of another block.
set_viewport_state_other_block(cb, state_info) ==
    /\ Call("set_viewport_state", cb)
    /\ SetPipelineState(cb, PipelineState_set_block(pipeline_state[cb], "rasterization", state_info))

\* CommandBuffer::set_viewport_state
set_viewport_state(cb, state_info) ==
    /\ Call("set_viewport_state", cb)
    /\ SetPipelineState(cb, PipelineState_set_block(pipeline_state[cb], "viewport", state_info))

\* CommandBuffer::set_vertex_input_state
set_vertex_input_state(cb, state_info) ==
    /\ Call("set_vertex_input_state", cb)
    /\ SetPipelineState(cb, PipelineState_set_block(pipeline_state[cb], "vertex_input", state_info))

\* CommandBuffer::set_input_assembly_state
set_input_assembly_state(cb, state_info) ==
    /\ Call("set_input_assembly_state", cb)
    /\ SetPipelineState(cb, PipelineState_set_block(pipeline_state[cb], "input_assembly", state_info))

\* CommandBuffer::set_rasterization_state
set_rasterization_state(cb, state_info) ==
    /\ Call("set_rasterization_state", cb)
    /\ SetPipelineState(cb, PipelineState_set_block(pipeline_state[cb], "rasterization", state_info))

\* CommandBuffer::set_multisample_state
set_multisample_state(cb, state_info) ==
    /\ Call("set_multisample_state", cb)
    /\ SetPipelineState(cb, PipelineState_set_block(pipeline_state[cb], "multisample", state_info))

\* CommandBuffer::set_depth_stencil_state
set_depth_stencil_state(cb, state_info) ==
    /\ Call("set_depth_stencil_state", cb)
    /\ SetPipelineState(cb, PipelineState_set_block(pipeline_state[cb], "depth_stencil", state_info))

\* CommandBuffer::set_color_blend_state
set_color_blend_state(cb, state_info) ==
    /\ Call("set_color_blend_state", cb)
    /\ SetPipelineState(cb, PipelineState_set_color_blend_state(pipeline_state[cb], state_info))

SetResourceBindingState(cb, rbs) ==
    /\ object[cb] = "live"
    /\ resource_binding_state' = [resource_binding_state EXCEPT ![cb] = rbs]
    /\ UnchangedObjects
    /\ UNCHANGED << state, pipeline_state, descriptor_set_layout_state,
                    current_render_pass, render_pass_active, bound_pipeline >>
    /\ result' = "void"
    /\ emitted' = << >>

\* CommandBuffer::bind_buffer
bind_buffer(cb, buffer, offset, range, set, binding, array_element) ==
    /\ Call("bind_buffer", cb)
    /\ SetResourceBindingState(cb,
           ResourceBindingState_bind(resource_binding_state[cb],
               BufferInfo(buffer, offset, range), set, binding, array_element))

\* CommandBuffer::bind_image
bind_image(cb, image_view, sampler, set, binding, array_element) ==
    /\ Call("bind_image", cb)
    /\ SetResourceBindingState(cb,
           ResourceBindingState_bind(resource_binding_state[cb],
               ImageInfo(image_view, sampler), set, binding, array_element))

\* CommandBuffer::bind_input
bind_input(cb, image_view, set, binding, array_element) ==
    /\ Call("bind_input", cb)
    /\ SetResourceBindingState(cb,
           ResourceBindingState_bind(resource_binding_state[cb],
               ImageInfo(image_view, VK_NULL_HANDLE), set, binding, array_element))

\* ------------------------------------------------------------------------
\* Render pass and subpass sequencing
\* ------------------------------------------------------------------------
\* A resize that always takes the colour output count of the first subpass.
update_blend_state_attachments_first_subpass(ps, rp) ==
    LET blend_state == [ps.color_blend_state EXCEPT
                            !.attachments = get_color_output_count(rp, 0)]
    IN  PipelineState_set_color_blend_state(ps, blend_state)

\* "Update blend state attachments": the list is resized to the colour
\* output count of the current subpass and written back through the setter.
update_blend_state_attachments(ps, rp) ==
    LET blend_state == [ps.color_blend_state EXCEPT
                            !.attachments = get_color_output_count(rp, ps.subpass_index)]
    IN  PipelineState_set_color_blend_state(ps, blend_state)

\* A render pass begin that keeps the set layouts bound before it.
begin_render_pass_keeps_layouts(cb, rp) ==
    /\ object[cb] = "live"
    /\ is_recording(cb)
    /\ level[cb] = "PRIMARY"
    /\ handle[cb] \in Handles
    /\ ~render_pass_active[handle[cb]]
    /\ Call("begin_render_pass", cb)
    /\ UnchangedObjects
    /\ UNCHANGED << state, descriptor_set_layout_state >>
    /\ pipeline_state' = [pipeline_state EXCEPT ![cb] =
           update_blend_state_attachments(PipelineState_reset(@), rp)]
    /\ resource_binding_state' =
           [resource_binding_state EXCEPT ![cb] = ResourceBindingState_reset(@)]
    /\ current_render_pass' =
           [current_render_pass EXCEPT ![cb] = [render_pass |-> rp, framebuffer |-> rp]]
    /\ render_pass_active' = [render_pass_active EXCEPT ![handle[cb]] = TRUE]
    /\ UNCHANGED bound_pipeline
    /\ result' = "void"
    /\ emitted' =
           << [cmd |-> "request_render_pass", render_pass |-> rp],
              [cmd |-> "request_framebuffer", framebuffer |-> rp],
              [cmd |-> "vkCmdBeginRenderPass", handle |-> handle[cb],
               renderPass |-> rp, framebuffer |-> rp] >>

\* CommandBuffer::begin_render_pass.  rp is the render pass the ResourceCache
\* resolves for (render_target, load_store_infos, subpasses); the framebuffer
\* it resolves for (render_target, rp) is named after rp.  Called while
\* recording a primary recorder with no render pass instance open.
begin_render_pass(cb, rp) ==
    /\ object[cb] = "live"
    /\ is_recording(cb)
    /\ level[cb] = "PRIMARY"
    /\ handle[cb] \in Handles
    /\ ~render_pass_active[handle[cb]]
    /\ Call("begin_render_pass", cb)
    /\ UnchangedObjects
    /\ UNCHANGED state
    /\ pipeline_state' = [pipeline_state EXCEPT ![cb] =
           update_blend_state_attachments(PipelineState_reset(@), rp)]
    /\ resource_binding_state' =
           [resource_binding_state EXCEPT ![cb] = ResourceBindingState_reset(@)]
    /\ descriptor_set_layout_state' = [descriptor_set_layout_state EXCEPT ![cb] = EmptyMap]
    /\ current_render_pass' =
           [current_render_pass EXCEPT ![cb] = [render_pass |-> rp, framebuffer |-> rp]]
    /\ render_pass_active' = [render_pass_active EXCEPT ![handle[cb]] = TRUE]
    /\ UNCHANGED bound_pipeline
    /\ result' = "void"
    /\ emitted' =
           << [cmd |-> "request_render_pass", render_pass |-> rp],
              [cmd |-> "request_framebuffer", framebuffer |-> rp],
              [cmd |-> "vkCmdBeginRenderPass", handle |-> handle[cb],
               renderPass |-> rp, framebuffer |-> rp] >>

\* A subpass transition that leaves the bindings of the previous subpass.
next_subpass_keeps_bindings(cb) ==
    /\ object[cb] = "live"
    /\ is_recording(cb)
    /\ level[cb] = "PRIMARY"
    /\ handle[cb] \in Handles
    /\ render_pass_active[handle[cb]]
    /\ IsObject(current_render_pass[cb].render_pass)
    /\ pipeline_state[cb].subpass_index + 1 < subpass_count(current_render_pass[cb].render_pass)
    /\ Call("next_subpass", cb)
    /\ UnchangedObjects
    /\ UNCHANGED << state, current_render_pass, render_pass_active, bound_pipeline >>
    /\ pipeline_state' = [pipeline_state EXCEPT ![cb] =
           update_blend_state_attachments(
               PipelineState_set_subpass_index(@, @.subpass_index + 1),
               current_render_pass[cb].render_pass)]
    /\ UNCHANGED << resource_binding_state, descriptor_set_layout_state >>
    /\ result' = "void"
    /\ emitted' = << [cmd |-> "vkCmdNextSubpass", handle |-> handle[cb]] >>

\* CommandBuffer::next_subpass.  Called inside a render pass instance that
\* has a further subpass.
next_subpass(cb) ==
    /\ object[cb] = "live"
    /\ is_recording(cb)
    /\ level[cb] = "PRIMARY"
    /\ handle[cb] \in Handles
    /\ render_pass_active[handle[cb]]
    /\ IsObject(current_render_pass[cb].render_pass)
    /\ pipeline_state[cb].subpass_index + 1 < subpass_count(current_render_pass[cb].render_pass)
    /\ Call("next_subpass", cb)
    /\ UnchangedObjects
    /\ UNCHANGED << state, current_render_pass, render_pass_active, bound_pipeline >>
    /\ pipeline_state' = [pipeline_state EXCEPT ![cb] =
           update_blend_state_attachments(
               PipelineState_set_subpass_index(@, @.subpass_index + 1),
               current_render_pass[cb].render_pass)]
    /\ resource_binding_state' =
           [resource_binding_state EXCEPT ![cb] = ResourceBindingState_reset(@)]
    /\ descriptor_set_layout_state' = [descriptor_set_layout_state EXCEPT ![cb] = EmptyMap]
    /\ result' = "void"
    /\ emitted' = << [cmd |-> "vkCmdNextSubpass", handle |-> handle[cb]] >>

\* An end of the render pass that also resets the tracked state.
end_render_pass_resets(cb) ==
    /\ object[cb] = "live"
    /\ is_recording(cb)
    /\ level[cb] = "PRIMARY"
    /\ handle[cb] \in Handles
    /\ render_pass_active[handle[cb]]
    /\ Call("end_render_pass", cb)
    /\ UnchangedObjects
    /\ reset_state(cb)
    /\ UNCHANGED << state, current_render_pass >>
    /\ render_pass_active' = [render_pass_active EXCEPT ![handle[cb]] = FALSE]
    /\ UNCHANGED bound_pipeline
    /\ result' = "void"
    /\ emitted' = << [cmd |-> "vkCmdEndRenderPass", handle |-> handle[cb]] >>

\* CommandBuffer::end_render_pass.  Called inside a render pass instance.
end_render_pass(cb) ==
    /\ object[cb] = "live"
    /\ is_recording(cb)
    /\ level[cb] = "PRIMARY"
    /\ handle[cb] \in Handles
    /\ render_pass_active[handle[cb]]
    /\ Call("end_render_pass", cb)
    /\ UnchangedObjects
    /\ UnchangedTracked
    /\ UNCHANGED state
    /\ render_pass_active' = [render_pass_active EXCEPT ![handle[cb]] = FALSE]
    /\ UNCHANGED bound_pipeline
    /\ result' = "void"
    /\ emitted' = << [cmd |-> "vkCmdEndRenderPass", handle |-> handle[cb]] >>

\* ------------------------------------------------------------------------
\* flush_pipeline_state
\* ------------------------------------------------------------------------
\* CommandBuffer::flush_pipeline_state: the PipelineState it leaves and the
\* cache requests and commands it makes.
flush_pipeline_state(ps, crp, pipeline_bind_point) ==
    IF ~ps.dirty
    THEN [pipeline_state |-> ps, cmds |-> << >>]
    ELSE LET cleared == PipelineState_clear_dirty(ps)
         IN  IF pipeline_bind_point = "GRAPHICS"
             THEN LET stamped == PipelineState_set_render_pass(cleared, crp.render_pass)
                  IN  [pipeline_state |-> stamped,
                       cmds |-> << [cmd |-> "request_graphics_pipeline",
                                    key |-> PipelineKey(stamped)],
                                   [cmd |-> "vkCmdBindPipeline",
                                    bind_point |-> pipeline_bind_point,
                                    key |-> PipelineKey(stamped)] >>]
             ELSE [pipeline_state |-> cleared,
                   cmds |-> << [cmd |-> "request_compute_pipeline",
                                key |-> PipelineKey(cleared)],
                               [cmd |-> "vkCmdBindPipeline",
                                bind_point |-> pipeline_bind_point,
                                key |-> PipelineKey(cleared)] >>]

\* ------------------------------------------------------------------------
\* flush_descriptor_state
\* ------------------------------------------------------------------------
\* Image views a caller binds: handle -> format.
ImageViewFormats == << "R8G8B8A8_SRGB", "D32_SFLOAT" >>

ImageViews == DOMAIN ImageViewFormats

is_depth_stencil_format(format) ==
    format \in {"D16_UNORM", "D32_SFLOAT", "D16_UNORM_S8_UINT",
                "D24_UNORM_S8_UINT", "D32_SFLOAT_S8_UINT"}

is_dynamic_buffer_descriptor_type(type) ==
    type \in {"STORAGE_BUFFER_DYNAMIC", "UNIFORM_BUFFER_DYNAMIC"}

is_buffer_descriptor_type(type) ==
    type \in {"STORAGE_BUFFER", "UNIFORM_BUFFER"} \/ is_dynamic_buffer_descriptor_type(type)

\* to_u32: a narrowing cast; the offsets of the model are below 2^32, where
\* it changes nothing.
to_u32(x) == x

NoInfos == [buffer_infos |-> EmptyMap, image_infos |-> EmptyMap, dynamic_offsets |-> << >>]

\* An image layout derivation that does not look at the format.
image_info_of_any_format(type, resource_info) ==
    LET base == [sampler |-> resource_info.sampler, imageView |-> resource_info.image_view]
    IN  IF type \in {"COMBINED_IMAGE_SAMPLER", "INPUT_ATTACHMENT"}
        THEN << base @@ [imageLayout |-> "SHADER_READ_ONLY_OPTIMAL"] >>
        ELSE IF type = "STORAGE_IMAGE"
        THEN << base @@ [imageLayout |-> "GENERAL"] >>
        ELSE << >>

\* The image-info record of one array element, or none ("default: continue").
image_info_of(type, resource_info) ==
    LET format == ImageViewFormats[resource_info.image_view]
        base == [sampler |-> resource_info.sampler, imageView |-> resource_info.image_view]
    IN  IF type \in {"COMBINED_IMAGE_SAMPLER", "INPUT_ATTACHMENT"}
        THEN << base @@
                [imageLayout |-> IF is_depth_stencil_format(format)
                                 THEN "DEPTH_STENCIL_READ_ONLY_OPTIMAL"
                                 ELSE "SHADER_READ_ONLY_OPTIMAL"] >>
        ELSE IF type = "STORAGE_IMAGE"
        THEN << base @@ [imageLayout |-> "GENERAL"] >>
        ELSE << >>

\* A binding loop that records the dynamic offset after zeroing it.
RECURSIVE gather_infos_zero_first(_, _, _, _)
gather_infos_zero_first(todo, resource_bindings, dsl, acc) ==
    IF todo = << >> THEN acc
    ELSE
      LET key == Head(todo)
          rest == Tail(todo)
          resource_info == resource_bindings[key]
      IN
      IF ~has_layout_binding(dsl, key[1])
      THEN gather_infos_zero_first(rest, resource_bindings, dsl, acc)
      ELSE
        LET type == get_layout_binding(dsl, key[1]) IN
        IF resource_info.buffer # VK_NULL_HANDLE /\ is_buffer_descriptor_type(type)
        THEN
          LET dynamic == is_dynamic_buffer_descriptor_type(type)
              buffer_info ==
                  [buffer |-> resource_info.buffer,
                   offset |-> IF dynamic THEN 0 ELSE resource_info.offset,
                   range  |-> resource_info.range]
          IN  gather_infos_zero_first(rest, resource_bindings, dsl,
                  [acc EXCEPT
                      !.buffer_infos = Put(@, key, buffer_info),
                      !.dynamic_offsets =
                          IF dynamic THEN Append(@, to_u32(buffer_info.offset)) ELSE @])
        ELSE IF resource_info.image_view # VK_NULL_HANDLE
                \/ resource_info.sampler # VK_NULL_HANDLE
        THEN
          LET image_info == image_info_of(type, resource_info) IN
          gather_infos_zero_first(rest, resource_bindings, dsl,
              IF image_info = << >> THEN acc
              ELSE [acc EXCEPT !.image_infos = Put(@, key, image_info[1])])
        ELSE gather_infos_zero_first(rest, resource_bindings, dsl, acc)

\* "Iterate over all resource bindings" of one set: the buffer infos, image
\* infos and dynamic offsets gathered from the bindings the set layout
\* declares.  todo holds the (binding, array element) pairs still to visit,
\* in the order the containers of the bindings hand them out.
RECURSIVE gather_infos(_, _, _, _)
gather_infos(todo, resource_bindings, dsl, acc) ==
    IF todo = << >> THEN acc
    ELSE
      LET key == Head(todo)
          rest == Tail(todo)
          resource_info == resource_bindings[key]
      IN
      IF ~has_layout_binding(dsl, key[1])
      THEN gather_infos(rest, resource_bindings, dsl, acc)
      ELSE
        LET type == get_layout_binding(dsl, key[1]) IN
        IF resource_info.buffer # VK_NULL_HANDLE /\ is_buffer_descriptor_type(type)
        THEN
          LET dynamic == is_dynamic_buffer_descriptor_type(type)
              buffer_info ==
                  [buffer |-> resource_info.buffer,
                   offset |-> IF dynamic THEN 0 ELSE resource_info.offset,
                   range  |-> resource_info.range]
          IN  gather_infos(rest, resource_bindings, dsl,
                  [acc EXCEPT
                      !.buffer_infos = Put(@, key, buffer_info),
                      !.dynamic_offsets =
                          IF dynamic THEN Append(@, to_u32(resource_info.offset)) ELSE @])
        ELSE IF resource_info.image_view # VK_NULL_HANDLE
                \/ resource_info.sampler # VK_NULL_HANDLE
        THEN
          LET image_info == image_info_of(type, resource_info) IN
          gather_infos(rest, resource_bindings, dsl,
              IF image_info = << >> THEN acc
              ELSE [acc EXCEPT !.image_infos = Put(@, key, image_info[1])])
        ELSE gather_infos(rest, resource_bindings, dsl, acc)

\* The orders in which a container can hand out the keys S: each key once.
Orders(S) ==
    {order \in [1 .. Cardinality(S) -> S] :
        \A i, j \in 1 .. Cardinality(S) : order[i] = order[j] => i = j}

\* The orders in which the two nested loops over the resource bindings of a
\* set can visit the (binding, array element) pairs keys: the outer loop
\* takes each binding once, the inner one each array element of it.
BindingOrders(keys) ==
    {order \in Orders(keys) :
        \A i, j, k \in DOMAIN order :
            i < j /\ j < k /\ order[i][1] = order[k][1] => order[j][1] = order[i][1]}

\* The orders in which a flush can visit set_bindings: the set indices in
\* an order of their container, each with an order of its bindings.
IterationOrders(set_bindings) ==
    LET sets == DOMAIN set_bindings
        keys(set) == DOMAIN set_bindings[set].resource_bindings
        all == UNION {BindingOrders(keys(set)) : set \in sets}
    IN  {[i \in DOMAIN order |-> [set |-> order[i], bindings |-> bindings[order[i]]]] :
            order \in Orders(sets),
            bindings \in {b \in [sets -> all] :
                              \A set \in sets : b[set] \in BindingOrders(keys(set))}}

\* "Iterate over all set bindings": todo holds the set indices of
\* ResourceBindingState still to visit, each with the order of its bindings,
\* in the order the container of the set bindings hands them out, which the
\* code leaves to the containers.
RECURSIVE flush_set_bindings(_, _, _, _, _)
flush_set_bindings(todo, pl, update_sets, bind_point, acc) ==
    IF todo = << >> THEN acc
    ELSE
      LET set == Head(todo).set
          rest == Tail(todo)
          set_bindings == acc.resource_binding_state.set_bindings[set]
      IN
      IF ~set_bindings.dirty /\ set \notin update_sets
      THEN flush_set_bindings(rest, pl, update_sets, bind_point, acc)
      ELSE
        LET cleared == ResourceBindingState_clear_dirty_set(acc.resource_binding_state, set) IN
        IF ~has_set_layout(pl, set)
        THEN flush_set_bindings(rest, pl, update_sets, bind_point,
                 [acc EXCEPT !.resource_binding_state = cleared])
        ELSE
          LET dsl == get_set_layout(pl, set)
              infos == gather_infos(Head(todo).bindings,
                                    set_bindings.resource_bindings, dsl, NoInfos)
              descriptor_set == [layout |-> dsl,
                                 buffer_infos |-> infos.buffer_infos,
                                 image_infos |-> infos.image_infos]
          IN  flush_set_bindings(rest, pl, update_sets, bind_point,
                  [resource_binding_state |-> cleared,
                   descriptor_set_layout_state |->
                       Put(acc.descriptor_set_layout_state, set, dsl),
                   cmds |-> acc.cmds \o
                       << [cmd |-> "request_descriptor_set", set |-> set,
                           descriptor_set |-> descriptor_set],
                          [cmd |-> "vkCmdBindDescriptorSets",
                           bind_point |-> bind_point, layout |-> pl,
                           set |-> set, count |-> 1,
                           descriptor_set |-> descriptor_set,
                           dynamic_offsets |-> infos.dynamic_offsets] >>])

\* A flush that never notices a changed set layout.
update_sets_none(pl, dsls) == {}

\* The sets "to later update": bound before with a set layout that is not
\* the current pipeline layout's.
update_sets_of(pl, dsls) ==
    {set \in get_bindings(pl) :
        set \in DOMAIN dsls /\ dsls[set] # get_set_layout(pl, set)}

\* A flush that keeps the tracked set layouts of sets the pipeline layout
\* no longer declares.
flush_descriptor_state_no_prune(ps, rbs, dsls, pipeline_bind_point, order) ==
    LET pl == ps.pipeline_layout
        update_sets == update_sets_of(pl, dsls)
    IN  IF rbs.dirty \/ update_sets # {}
        THEN flush_set_bindings(order, pl, update_sets,
                 pipeline_bind_point,
                 [resource_binding_state |-> ResourceBindingState_clear_dirty(rbs),
                  descriptor_set_layout_state |-> dsls,
                  cmds |-> << >>])
        ELSE [resource_binding_state |-> rbs,
              descriptor_set_layout_state |-> dsls,
              cmds |-> << >>]

\* A flush that resolves and binds every set that holds bindings, dirty or
\* not, on every call.
flush_descriptor_state_every_set(ps, rbs, dsls, pipeline_bind_point, order) ==
    LET pl == ps.pipeline_layout
        pruned == Remove(dsls, {set \in DOMAIN dsls : ~has_set_layout(pl, set)})
    IN  flush_set_bindings(order, pl, SetIdx,
            pipeline_bind_point,
            [resource_binding_state |-> ResourceBindingState_clear_dirty(rbs),
             descriptor_set_layout_state |-> pruned,
             cmds |-> << >>])

\* A flush that creates descriptor sets only when bindings are dirty.
flush_descriptor_state_dirty_only(ps, rbs, dsls, pipeline_bind_point, order) ==
    LET pl == ps.pipeline_layout
        update_sets == update_sets_of(pl, dsls)
        pruned == Remove(dsls, {set \in DOMAIN dsls : ~has_set_layout(pl, set)})
    IN  IF rbs.dirty
        THEN flush_set_bindings(order, pl, update_sets,
                 pipeline_bind_point,
                 [resource_binding_state |-> ResourceBindingState_clear_dirty(rbs),
                  descriptor_set_layout_state |-> pruned,
                  cmds |-> << >>])
        ELSE [resource_binding_state |-> rbs,
              descriptor_set_layout_state |-> pruned,
              cmds |-> << >>]

\* CommandBuffer::flush_descriptor_state: the ResourceBindingState and
\* descriptor_set_layout_state it leaves and the requests and commands it
\* makes, the set bindings being visited in order.  PipelineState holds a
\* pipeline layout.
flush_descriptor_state(ps, rbs, dsls, pipeline_bind_point, order) ==
    LET pl == ps.pipeline_layout
        update_sets == update_sets_of(pl, dsls)
        pruned == Remove(dsls, {set \in DOMAIN dsls : ~has_set_layout(pl, set)})
    IN  IF rbs.dirty \/ update_sets # {}
        THEN flush_set_bindings(order, pl, update_sets,
                 pipeline_bind_point,
                 [resource_binding_state |-> ResourceBindingState_clear_dirty(rbs),
                  descriptor_set_layout_state |-> pruned,
                  cmds |-> << >>])
        ELSE [resource_binding_state |-> rbs,
              descriptor_set_layout_state |-> pruned,
              cmds |-> << >>]

\* ------------------------------------------------------------------------
\* Push constants
\* ------------------------------------------------------------------------
\* A push that does not look for a covering range.
push_constants_unchecked(cb, offset, size) ==
    /\ object[cb] = "live"
    /\ is_recording(cb)
    /\ handle[cb] \in Handles
    /\ pipeline_state[cb].pipeline_layout # VK_NULL_HANDLE
    /\ Call("push_constants", cb)
    /\ UnchangedObjects
    /\ UnchangedTracked
    /\ UNCHANGED << state, render_pass_active, bound_pipeline >>
    /\ result' = "void"
    /\ LET pipeline_layout == pipeline_state[cb].pipeline_layout
           shader_stage == get_push_constant_range_stage(pipeline_layout, offset, to_u32(size))
       IN  emitted' = << [cmd |-> "vkCmdPushConstants", handle |-> handle[cb],
                          layout |-> pipeline_layout, stageFlags |-> shader_stage,
                          offset |-> offset, size |-> to_u32(size)] >>

\* CommandBuffer::push_constants(offset, values), size being values.size().
\* Called while recording with a pipeline layout bound (it is dereferenced).
\* The warning of the else branch is kept among the emitted records.
push_constants(cb, offset, size) ==
    /\ object[cb] = "live"
    /\ is_recording(cb)
    /\ handle[cb] \in Handles
    /\ pipeline_state[cb].pipeline_layout # VK_NULL_HANDLE
    /\ Call("push_constants", cb)
    /\ UnchangedObjects
    /\ UnchangedTracked
    /\ UNCHANGED << state, render_pass_active, bound_pipeline >>
    /\ result' = "void"
    /\ LET pipeline_layout == pipeline_state[cb].pipeline_layout
           shader_stage == get_push_constant_range_stage(pipeline_layout, offset, to_u32(size))
       IN  emitted' =
               IF shader_stage # {}
               THEN << [cmd |-> "vkCmdPushConstants", handle |-> handle[cb],
                        layout |-> pipeline_layout, stageFlags |-> shader_stage,
                        offset |-> offset, size |-> to_u32(size)] >>
               ELSE << [cmd |-> "LOGW", offset |-> offset, size |-> size] >>

\* ------------------------------------------------------------------------
\* Draws and dispatches
\* ------------------------------------------------------------------------
\* flush_pipeline_state dereferences current_render_pass.render_pass when it
\* flushes a dirty PipelineState at the graphics bind point.
DereferencesRenderPass(cb, pipeline_bind_point) ==
    pipeline_bind_point = "GRAPHICS" /\ pipeline_state[cb].dirty

\* A body that records the command before it flushes.
flush_and_record_command_first(cb, pipeline_bind_point, cmd) ==
    /\ object[cb] = "live"
    /\ is_recording(cb)
    /\ handle[cb] \in Handles
    /\ pipeline_state[cb].pipeline_layout # VK_NULL_HANDLE
    /\ DereferencesRenderPass(cb, pipeline_bind_point)
           => IsObject(current_render_pass[cb].render_pass)
    /\ UnchangedObjects
    /\ UNCHANGED << state, current_render_pass, render_pass_active >>
    /\ \E order \in IterationOrders(resource_binding_state[cb].set_bindings) :
       LET p == flush_pipeline_state(pipeline_state[cb], current_render_pass[cb],
                                     pipeline_bind_point)
           d == flush_descriptor_state(p.pipeline_state, resource_binding_state[cb],
                                       descriptor_set_layout_state[cb], pipeline_bind_point,
                                       order)
       IN  /\ pipeline_state' = [pipeline_state EXCEPT ![cb] = p.pipeline_state]
           /\ bound_pipeline' =
                  IF p.cmds = << >> THEN bound_pipeline
                  ELSE [bound_pipeline EXCEPT ![handle[cb]] =
                            @ \cup {p.cmds[2].bind_point}]
           /\ resource_binding_state' =
                  [resource_binding_state EXCEPT ![cb] = d.resource_binding_state]
           /\ descriptor_set_layout_state' =
                  [descriptor_set_layout_state EXCEPT ![cb] = d.descriptor_set_layout_state]
           /\ emitted' = << [cmd |-> cmd, handle |-> handle[cb]] >> \o p.cmds \o d.cmds
    /\ result' = "void"

\* The body the five draw and dispatch calls share: flush_pipeline_state,
\* flush_descriptor_state, then the command itself, the containers of the
\* bindings being walked in order.  A pipeline layout is bound
\* (flush_descriptor_state dereferences it), and so is a render pass when
\* flush_pipeline_state dereferences it.
flush_and_record_in(cb, pipeline_bind_point, cmd, order) ==
    /\ object[cb] = "live"
    /\ is_recording(cb)
    /\ handle[cb] \in Handles
    /\ pipeline_state[cb].pipeline_layout # VK_NULL_HANDLE
    /\ DereferencesRenderPass(cb, pipeline_bind_point)
           => IsObject(current_render_pass[cb].render_pass)
    /\ UnchangedObjects
    /\ UNCHANGED << state, current_render_pass, render_pass_active >>
    /\ LET p == flush_pipeline_state(pipeline_state[cb], current_render_pass[cb],
                                     pipeline_bind_point)
           d == flush_descriptor_state(p.pipeline_state, resource_binding_state[cb],
                                       descriptor_set_layout_state[cb], pipeline_bind_point,
                                       order)
       IN  /\ pipeline_state' = [pipeline_state EXCEPT ![cb] = p.pipeline_state]
           /\ bound_pipeline' =
                  IF p.cmds = << >> THEN bound_pipeline
                  ELSE [bound_pipeline EXCEPT ![handle[cb]] =
                            @ \cup {p.cmds[2].bind_point}]
           /\ resource_binding_state' =
                  [resource_binding_state EXCEPT ![cb] = d.resource_binding_state]
           /\ descriptor_set_layout_state' =
                  [descriptor_set_layout_state EXCEPT ![cb] = d.descriptor_set_layout_state]
           /\ emitted' = p.cmds \o d.cmds \o << [cmd |-> cmd, handle |-> handle[cb]] >>
    /\ result' = "void"

\* The body of a draw or dispatch call: the code leaves the order in which
\* the bindings are walked to their containers.
flush_and_record(cb, pipeline_bind_point, cmd) ==
    \E order \in IterationOrders(resource_binding_state[cb].set_bindings) :
        flush_and_record_in(cb, pipeline_bind_point, cmd, order)

\* Draws are recorded inside a render pass instance.
draw(cb) ==
    /\ handle[cb] \in Handles /\ render_pass_active[handle[cb]]
    /\ Call("draw", cb)
    /\ flush_and_record(cb, "GRAPHICS", "vkCmdDraw")

draw_indexed(cb) ==
    /\ handle[cb] \in Handles /\ render_pass_active[handle[cb]]
    /\ Call("draw_indexed", cb)
    /\ flush_and_record(cb, "GRAPHICS", "vkCmdDrawIndexed")

draw_indexed_indirect(cb) ==
    /\ handle[cb] \in Handles /\ render_pass_active[handle[cb]]
    /\ Call("draw_indexed_indirect", cb)
    /\ flush_and_record(cb, "GRAPHICS", "vkCmdDrawIndexedIndirect")

\* Dispatches are recorded outside a render pass instance.
dispatch(cb) ==
    /\ handle[cb] \in Handles /\ ~render_pass_active[handle[cb]]
    /\ Call("dispatch", cb)
    /\ flush_and_record(cb, "COMPUTE", "vkCmdDispatch")

dispatch_indirect(cb) ==
    /\ handle[cb] \in Handles /\ ~render_pass_active[handle[cb]]
    /\ Call("dispatch_indirect", cb)
    /\ flush_and_record(cb, "COMPUTE", "vkCmdDispatchIndirect")

\* ------------------------------------------------------------------------
\* Cache requests that fail
\* ------------------------------------------------------------------------
\* A ResourceCache request that cannot produce its object throws; the record
\* marks where the call was left.
Throw(request) == [cmd |-> "throw", request |-> request]

\* begin_render_pass, the cache throwing in failing (request_render_pass or
\* request_framebuffer): the state was reset, the context holds what was
\* assigned before the throw, and nothing after the throw ran.
begin_render_pass_throws(cb, rp, failing) ==
    /\ object[cb] = "live"
    /\ is_recording(cb)
    /\ level[cb] = "PRIMARY"
    /\ handle[cb] \in Handles
    /\ ~render_pass_active[handle[cb]]
    /\ Call("begin_render_pass", cb)
    /\ UnchangedObjects
    /\ UNCHANGED << state, render_pass_active, bound_pipeline >>
    /\ reset_state(cb)
    /\ current_render_pass' =
           IF failing = "request_render_pass"
           THEN current_render_pass
           ELSE [current_render_pass EXCEPT ![cb].render_pass = rp]
    /\ result' = "exception"
    /\ emitted' =
           IF failing = "request_render_pass"
           THEN << Throw("request_render_pass") >>
           ELSE << [cmd |-> "request_render_pass", render_pass |-> rp],
                   Throw("request_framebuffer") >>

\* flush_pipeline_state of a dirty PipelineState, the pipeline request
\* throwing: the dirty flag was cleared and, at the graphics bind point, the
\* render pass stamped.
flush_pipeline_state_throws(ps, crp, pipeline_bind_point) ==
    LET cleared == PipelineState_clear_dirty(ps)
    IN  IF pipeline_bind_point = "GRAPHICS"
        THEN [pipeline_state |-> PipelineState_set_render_pass(cleared, crp.render_pass),
              cmds |-> << Throw("request_graphics_pipeline") >>]
        ELSE [pipeline_state |-> cleared,
              cmds |-> << Throw("request_compute_pipeline") >>]

\* flush_descriptor_state, the request for the descriptor set of set index
\* failing_set throwing: the sets before it in order were processed, its
\* dirty flag was cleared and its set layout recorded.
flush_descriptor_state_throws(ps, rbs, dsls, pipeline_bind_point, failing_set, order) ==
    LET pl == ps.pipeline_layout
        update_sets == update_sets_of(pl, dsls)
        pruned == Remove(dsls, {set \in DOMAIN dsls : ~has_set_layout(pl, set)})
        at == CHOOSE i \in DOMAIN order : order[i].set = failing_set
        before == flush_set_bindings(
                      SubSeq(order, 1, at - 1),
                      pl, update_sets, pipeline_bind_point,
                      [resource_binding_state |-> ResourceBindingState_clear_dirty(rbs),
                       descriptor_set_layout_state |-> pruned,
                       cmds |-> << >>])
    IN  [resource_binding_state |->
             ResourceBindingState_clear_dirty_set(before.resource_binding_state, failing_set),
         descriptor_set_layout_state |->
             Put(before.descriptor_set_layout_state, failing_set,
                 get_set_layout(pl, failing_set)),
         cmds |-> before.cmds \o << Throw("request_descriptor_set") >>]

\* A body that goes on after a failed request and records the command.
flush_and_record_ignoring_failure(cb, pipeline_bind_point, cmd, failing, failing_set) ==
    /\ object[cb] = "live"
    /\ is_recording(cb)
    /\ handle[cb] \in Handles
    /\ pipeline_state[cb].pipeline_layout # VK_NULL_HANDLE
    /\ failing = "request_pipeline"
    /\ pipeline_state[cb].dirty
    /\ DereferencesRenderPass(cb, pipeline_bind_point)
           => IsObject(current_render_pass[cb].render_pass)
    /\ UnchangedObjects
    /\ UnchangedTracked
    /\ UNCHANGED << state, render_pass_active, bound_pipeline >>
    /\ emitted' = << Throw(failing), [cmd |-> cmd, handle |-> handle[cb]] >>
    /\ result' = "void"

\* The body of a draw or dispatch call, the cache throwing in failing: the
\* pipeline request of a dirty PipelineState, or the descriptor-set request
\* of a set index the flush resolves.  The call is left at the throw.
flush_and_record_throws(cb, pipeline_bind_point, cmd, failing, failing_set) ==
    /\ object[cb] = "live"
    /\ is_recording(cb)
    /\ handle[cb] \in Handles
    /\ pipeline_state[cb].pipeline_layout # VK_NULL_HANDLE
    /\ DereferencesRenderPass(cb, pipeline_bind_point)
           => IsObject(current_render_pass[cb].render_pass)
    /\ UnchangedObjects
    /\ UNCHANGED << state, current_render_pass, render_pass_active >>
    /\ result' = "exception"
    /\ IF failing = "request_pipeline"
       THEN /\ pipeline_state[cb].dirty
            /\ LET p == flush_pipeline_state_throws(pipeline_state[cb],
                            current_render_pass[cb], pipeline_bind_point)
               IN  /\ pipeline_state' = [pipeline_state EXCEPT ![cb] = p.pipeline_state]
                   /\ emitted' = p.cmds
            /\ UNCHANGED << resource_binding_state, descriptor_set_layout_state,
                            bound_pipeline >>
       ELSE \E order \in IterationOrders(resource_binding_state[cb].set_bindings) :
            LET p == flush_pipeline_state(pipeline_state[cb], current_render_pass[cb],
                                          pipeline_bind_point)
                whole == flush_descriptor_state(p.pipeline_state,
                             resource_binding_state[cb],
                             descriptor_set_layout_state[cb], pipeline_bind_point,
                             order)
                d == flush_descriptor_state_throws(p.pipeline_state,
                         resource_binding_state[cb],
                         descriptor_set_layout_state[cb], pipeline_bind_point,
                         failing_set, order)
            IN  /\ \E i \in DOMAIN whole.cmds :
                       /\ whole.cmds[i].cmd = "request_descriptor_set"
                       /\ whole.cmds[i].set = failing_set
                /\ pipeline_state' = [pipeline_state EXCEPT ![cb] = p.pipeline_state]
                /\ bound_pipeline' =
                       IF p.cmds = << >> THEN bound_pipeline
                       ELSE [bound_pipeline EXCEPT ![handle[cb]] =
                                 @ \cup {p.cmds[2].bind_point}]
                /\ resource_binding_state' =
                       [resource_binding_state EXCEPT ![cb] = d.resource_binding_state]
                /\ descriptor_set_layout_state' =
                       [descriptor_set_layout_state EXCEPT ![cb] =
                            d.descriptor_set_layout_state]
                /\ emitted' = p.cmds \o d.cmds

\* draw, the cache throwing.
draw_throws(cb, failing, failing_set) ==
    /\ handle[cb] \in Handles /\ render_pass_active[handle[cb]]
    /\ Call("draw", cb)
    /\ flush_and_record_throws(cb, "GRAPHICS", "vkCmdDraw", failing, failing_set)

\* dispatch, the cache throwing.
dispatch_throws(cb, failing, failing_set) ==
    /\ handle[cb] \in Handles /\ ~render_pass_active[handle[cb]]
    /\ Call("dispatch", cb)
    /\ flush_and_record_throws(cb, "COMPUTE", "vkCmdDispatch", failing, failing_set)

\* ------------------------------------------------------------------------
\* SpecMove: objects are constructed in two storage slots, moved between
\* them and destroyed, and each is begun, ended and reset in every lifecycle
\* state.
\* ------------------------------------------------------------------------
NextMove ==
    \/ \E cb \in {1, 2}, lvl \in {"PRIMARY"}, storage \in Uninitialised :
           CommandBuffer(cb, lvl, "ResetPool", storage)
    \/ \E cb \in {1, 2}, other \in {1, 2}, storage \in Uninitialised :
           CommandBuffer_move(cb, other, storage)
    \/ \E cb \in {1, 2} : CommandBuffer_destroy(cb)
    \/ \E cb \in {1, 2} : begin(cb, 0)
    \/ \E cb \in {1, 2} : end(cb)
    \/ \E cb \in {1, 2}, mode \in ResetModes, r \in VkResults : reset(cb, mode, r)

SpecMove == Init /\ [][NextMove]_vars

\* ------------------------------------------------------------------------
\* SpecRecording: a primary recorder (slot 1) and a secondary recorder
\* (slot 2) are begun, ended and reset while state is set, resources are
\* bound and draws are recorded.
\* ------------------------------------------------------------------------
NextRecording ==
    \/ \E storage \in Uninitialised : CommandBuffer(1, "PRIMARY", "ResetPool", storage)
    \/ \E storage \in Uninitialised : CommandBuffer(2, "SECONDARY", "ResetPool", storage)
    \/ \E cb \in {1, 2}, primary \in {0, 1} : begin(cb, primary)
    \/ \E cb \in {1, 2} : end(cb)
    \/ \E cb \in {1, 2}, mode \in ResetModes, r \in VkResults : reset(cb, mode, r)
    \/ \E cb \in {1, 2} : bind_pipeline_layout(cb, 1)
    \/ set_viewport_state(1, 1)
    \/ bind_buffer(1, 1, 0, 4, 0, 0, 0)
    \/ begin_render_pass(1, 1)
    \/ next_subpass(1)
    \/ end_render_pass(1)
    \/ \E cb \in {1, 2} : draw(cb)

SpecRecording == Init /\ [][NextRecording]_vars

\* ------------------------------------------------------------------------
\* SpecState: every state block of one recorder is set to its default and
\* to another value, the viewport block to every value.
\* ------------------------------------------------------------------------
StateValues == 0..MaxStateValue

ColorBlendStates == [logic_op : {0, 1}, attachments : {0, 1}]

NextState ==
    \/ \E storage \in Uninitialised : CommandBuffer(1, "PRIMARY", "ResetPool", storage)
    \/ begin(1, 0)
    \/ \E v \in StateValues : set_viewport_state(1, v)
    \/ \E v \in {0, 1} : set_vertex_input_state(1, v)
    \/ \E v \in {0, 1} : set_input_assembly_state(1, v)
    \/ \E v \in {0, 1} : set_rasterization_state(1, v)
    \/ \E v \in {0, 1} : set_multisample_state(1, v)
    \/ \E v \in {0, 1} : set_depth_stencil_state(1, v)
    \/ \E v \in ColorBlendStates : set_color_blend_state(1, v)
    \/ \E pl \in {1, 2} : bind_pipeline_layout(1, pl)
    \/ dispatch(1)

SpecState == Init /\ [][NextState]_vars

\* ------------------------------------------------------------------------
\* SpecPipeline: one recorder sets state, walks render passes and subpasses
\* and records draws and dispatches.
\* ------------------------------------------------------------------------
NextPipeline ==
    \/ \E storage \in Uninitialised : CommandBuffer(1, "PRIMARY", "ResetPool", storage)
    \/ begin(1, 0)
    \/ end(1)
    \/ \E v \in StateValues : set_viewport_state(1, v)
    \/ \E v \in ColorBlendStates : set_color_blend_state(1, v)
    \/ \E pl \in {1, 2} : bind_pipeline_layout(1, pl)
    \/ \E data \in {1, 2} : set_specialization_constant(1, 0, data)
    \/ \E rp \in RenderPassIds : begin_render_pass(1, rp)
    \/ next_subpass(1)
    \/ end_render_pass(1)
    \/ draw(1)
    \/ draw_indexed(1)
    \/ draw_indexed_indirect(1)
    \/ dispatch(1)
    \/ dispatch_indirect(1)

SpecPipeline == Init /\ [][NextPipeline]_vars

\* ------------------------------------------------------------------------
\* SpecDescriptor: one recorder binds resources and pipeline layouts in
\* every order and records draws and dispatches.
\* ------------------------------------------------------------------------
NextDescriptor ==
    \/ \E storage \in Uninitialised : CommandBuffer(1, "PRIMARY", "ResetPool", storage)
    \/ begin(1, 0)
    \/ \E pl \in {1, 2, 3} : bind_pipeline_layout(1, pl)
    \/ \E offset \in {0, 4}, set \in SetIdx : bind_buffer(1, 1, offset, 4, set, 0, 0)
    \/ bind_image(1, 1, 1, 0, 1, 0)
    \/ bind_input(1, 2, 1, 1, 0)
    \/ begin_render_pass(1, 1)
    \/ next_subpass(1)
    \/ end_render_pass(1)
    \/ draw(1)
    \/ dispatch(1)

SpecDescriptor == Init /\ [][NextDescriptor]_vars

\* ------------------------------------------------------------------------
\* SpecDynamic: one recorder binds buffers at several offsets to the
\* bindings and array elements of set 0 and flushes them against a set
\* layout without (A) and with (D) dynamic buffer bindings.
\* ------------------------------------------------------------------------
NextDynamic ==
    \/ \E storage \in Uninitialised : CommandBuffer(1, "PRIMARY", "ResetPool", storage)
    \/ begin(1, 0)
    \/ \E pl \in {1, 4} : bind_pipeline_layout(1, pl)
    \/ \E offset \in {4, 8}, key \in {<<0, 0>>, <<0, 1>>, <<1, 0>>, <<2, 0>>} :
           bind_buffer(1, 1, offset, 4, 0, key[1], key[2])
    \/ dispatch(1)

SpecDynamic == Init /\ [][NextDynamic]_vars

\* ------------------------------------------------------------------------
\* SpecImage: one recorder binds colour and depth image views to every
\* binding of sets 0 and 1 and draws with layouts B and C, which declare
\* combined image sampler, storage image, input attachment and buffer
\* bindings.
\* ------------------------------------------------------------------------
NextImage ==
    \/ \E storage \in Uninitialised : CommandBuffer(1, "PRIMARY", "ResetPool", storage)
    \/ begin(1, 0)
    \/ begin_render_pass(1, 1)
    \/ \E pl \in {2, 3} : bind_pipeline_layout(1, pl)
    \/ \E image_view \in ImageViews, binding \in {0, 1} :
           bind_image(1, image_view, 1, 0, binding, 0)
    \/ \E image_view \in ImageViews, binding \in {0, 1} :
           bind_input(1, image_view, 1, binding, 0)
    \/ draw(1)

SpecImage == Init /\ [][NextImage]_vars

\* ------------------------------------------------------------------------
\* SpecPush: one recorder pushes constants at several offsets and sizes
\* under pipeline layouts with no, one and two push-constant ranges, with
\* state set, buffers bound and dispatches recorded in between.
\* ------------------------------------------------------------------------
NextPush ==
    \/ \E storage \in Uninitialised : CommandBuffer(1, "PRIMARY", "ResetPool", storage)
    \/ begin(1, 0)
    \/ end(1)
    \/ \E pl \in {1, 2, 3} : bind_pipeline_layout(1, pl)
    \/ set_viewport_state(1, 1)
    \/ bind_buffer(1, 1, 0, 4, 0, 0, 0)
    \/ \E offset \in {0, 4, 8}, size \in {4, 8} : push_constants(1, offset, size)
    \/ dispatch(1)

SpecPush == Init /\ [][NextPush]_vars

\* One primary recorder that binds buffers to two sets and records every kind
\* of draw and dispatch, inside and outside one render pass.
NextOrder ==
    \/ \E storage \in Uninitialised : CommandBuffer(1, "PRIMARY", "ResetPool", storage)
    \/ begin(1, 0)
    \/ \E pl \in {1, 2} : bind_pipeline_layout(1, pl)
    \/ \E set \in SetIdx : bind_buffer(1, 1, 0, 4, set, 0, 0)
    \/ begin_render_pass(1, 1)
    \/ end_render_pass(1)
    \/ draw(1)
    \/ draw_indexed(1)
    \/ draw_indexed_indirect(1)
    \/ dispatch(1)
    \/ dispatch_indirect(1)

SpecOrder == Init /\ [][NextOrder]_vars

\* ------------------------------------------------------------------------
\* SpecRelay: one recorder binds resources to sets 0 and 1 and flushes them
\* under pipeline layouts that declare set 1 with one set layout (B, C), with
\* another (E) or not at all (A).
\* ------------------------------------------------------------------------
NextRelay ==
    \/ \E storage \in Uninitialised : CommandBuffer(1, "PRIMARY", "ResetPool", storage)
    \/ begin(1, 0)
    \/ \E pl \in {1, 2, 3, 5} : bind_pipeline_layout(1, pl)
    \/ \E set \in SetIdx : bind_buffer(1, 1, 0, 4, set, 0, 0)
    \/ bind_image(1, 1, 1, 0, 1, 0)
    \/ bind_input(1, 2, 1, 1, 0)
    \/ begin_render_pass(1, 1)
    \/ end_render_pass(1)
    \/ draw(1)
    \/ dispatch(1)

SpecRelay == Init /\ [][NextRelay]_vars

\* One primary recorder whose cache requests may fail.
FailingRequests == {"request_pipeline", "request_descriptor_set"}

NextFailure ==
    \/ \E storage \in Uninitialised : CommandBuffer(1, "PRIMARY", "ResetPool", storage)
    \/ begin(1, 0)
    \/ \E pl \in {1, 2} : bind_pipeline_layout(1, pl)
    \/ \E set \in SetIdx : bind_buffer(1, 1, 0, 4, set, 0, 0)
    \/ begin_render_pass(1, 1)
    \/ \E failing \in {"request_render_pass", "request_framebuffer"} :
           begin_render_pass_throws(1, 1, failing)
    \/ end_render_pass(1)
    \/ draw(1)
    \/ dispatch(1)
    \/ \E failing \in FailingRequests, set \in SetIdx : draw_throws(1, failing, set)
    \/ \E failing \in FailingRequests, set \in SetIdx : dispatch_throws(1, failing, set)

SpecFailure == Init /\ [][NextFailure]_vars

\* ========================================================================
\* Properties
\* ========================================================================
\* The step is the call op on recorder cb.
IsCall(op, cb) == last'.op = op /\ last'.cb = cb /\ object[cb] = "live"

\* ---- C1 ----------------------------------------------------------------
\* C1: begin() on a recorder that is Recording returns VK_NOT_READY, begins
\* nothing, and leaves the lifecycle state Recording and PipelineState,
\* ResourceBindingState, descriptor_set_layout_state and the render-pass
\* context as they were.
C1_BeginWhileRecording ==
    [][\A cb \in CBs :
          IsCall("begin", cb) /\ state[cb] = "Recording"
          => /\ result' = "VK_NOT_READY"
             /\ emitted' = << >>
             /\ state'[cb] = "Recording"
             /\ pipeline_state'[cb] = pipeline_state[cb]
             /\ resource_binding_state'[cb] = resource_binding_state[cb]
             /\ descriptor_set_layout_state'[cb] = descriptor_set_layout_state[cb]
             /\ current_render_pass'[cb] = current_render_pass[cb]]_vars

\* A second begin() has just been refused on a recorder whose first
\* recording bound a layout and a buffer, set state, began a render pass and
\* drew.
C1_Witness ==
    /\ last.op = "begin" /\ last.from = "Recording"
    /\ result = "VK_NOT_READY"
    /\ state[last.cb] = "Recording"
    /\ pipeline_state[last.cb].pipeline_layout # VK_NULL_HANDLE
    /\ resource_binding_state[last.cb].set_bindings # EmptyMap
    /\ descriptor_set_layout_state[last.cb] # EmptyMap
    /\ IsObject(current_render_pass[last.cb].render_pass)

\* ---- C2 ----------------------------------------------------------------
\* C2: begin() on a recorder that is Initial or Executable returns
\* VK_SUCCESS and leaves it Recording with PipelineState at its defaults and
\* clean, ResourceBindingState without bindings or dirty flags and
\* descriptor_set_layout_state empty, whatever they held before.
C2_BeginResets ==
    [][\A cb \in CBs :
          IsCall("begin", cb) /\ state[cb] \in {"Initial", "Executable"}
          => /\ result' = "VK_SUCCESS"
             /\ state'[cb] = "Recording"
             /\ pipeline_state'[cb] = DefaultPipelineState
             /\ ~pipeline_state'[cb].dirty
             /\ resource_binding_state'[cb].set_bindings = EmptyMap
             /\ ~resource_binding_state'[cb].dirty
             /\ descriptor_set_layout_state'[cb] = EmptyMap]_vars

\* begin() has just succeeded on an Executable recorder that held a dirty
\* PipelineState with a layout, bound resources and a bound set layout.
C2_Witness ==
    /\ last.op = "begin" /\ last.from = "Executable"
    /\ result = "VK_SUCCESS"
    /\ state[last.cb] = "Recording"
    /\ last.before.pipeline_state.dirty
    /\ last.before.pipeline_state.pipeline_layout # VK_NULL_HANDLE
    /\ last.before.resource_binding_state.set_bindings # EmptyMap
    /\ last.before.descriptor_set_layout_state # EmptyMap
    /\ pipeline_state[last.cb] = DefaultPipelineState
    /\ resource_binding_state[last.cb] = DefaultResourceBindingState
    /\ descriptor_set_layout_state[last.cb] = EmptyMap

\* ---- C3 ----------------------------------------------------------------
\* C3: end() on a Recording recorder returns VK_SUCCESS and leaves it
\* Executable; end() in any other state returns VK_NOT_READY and changes
\* neither the lifecycle state nor any tracked member.
C3_End ==
    [][\A cb \in CBs :
          IsCall("end", cb)
          => /\ pipeline_state'[cb] = pipeline_state[cb]
             /\ resource_binding_state'[cb] = resource_binding_state[cb]
             /\ descriptor_set_layout_state'[cb] = descriptor_set_layout_state[cb]
             /\ current_render_pass'[cb] = current_render_pass[cb]
             /\ IF state[cb] = "Recording"
                THEN result' = "VK_SUCCESS" /\ state'[cb] = "Executable"
                ELSE /\ result' = "VK_NOT_READY"
                     /\ state'[cb] = state[cb]
                     /\ emitted' = << >>]_vars

\* end() has just been refused on an Executable recorder that still tracks
\* the state of the recording it ended.
C3_Witness ==
    /\ last.op = "end" /\ last.from = "Executable"
    /\ result = "VK_NOT_READY"
    /\ state[last.cb] = "Executable"
    /\ pipeline_state[last.cb].pipeline_layout # VK_NULL_HANDLE
    /\ resource_binding_state[last.cb].set_bindings # EmptyMap

\* ---- C4 ----------------------------------------------------------------
\* C4: reset() leaves the recorder Initial, whichever of Initial, Recording,
\* Executable and Invalid it was in and whichever reset mode it is given.
C4_ResetToInitial ==
    [][\A cb \in CBs : IsCall("reset", cb) => state'[cb] = "Initial"]_vars

\* reset() has just taken a moved-from (Invalid) recorder to Initial.
C4_Witness ==
    /\ last.op = "reset" /\ last.from = "Invalid"
    /\ state[last.cb] = "Initial"
    /\ handle[last.cb] = VK_NULL_HANDLE

\* ---- C5 ----------------------------------------------------------------
\* C5: Invalid is terminal: begin(), end() and reset() leave a moved-from
\* recorder, which is Invalid, in Invalid.
C5_InvalidIsTerminal ==
    [][\A cb \in CBs :
          /\ object[cb] = "live"
          /\ state[cb] = "Invalid"
          /\ last'.cb = cb
          /\ last'.op \in {"begin", "end", "reset"}
          => state'[cb] = "Invalid"]_vars

\* ---- C6 ----------------------------------------------------------------
\* C6: a handle is held by at most one recorder, a released handle is held
\* by none, and no handle is released twice.
HandleOwnership ==
    \A h \in Handles :
        /\ Cardinality({cb \in CBs : object[cb] = "live" /\ handle[cb] = h}) <= 1
        /\ freed[h] <= 1
        /\ freed[h] = 1 => \A cb \in CBs : handle[cb] # h

\* C6: a move gives the new recorder the handle and the lifecycle state of
\* its source and leaves the source Invalid without a handle; with
\* HandleOwnership, in every step and every state.
C6_MoveKeepsOneOwner ==
    /\ []HandleOwnership
    /\ [][\A cb \in CBs :
             last'.op = "CommandBuffer_move" /\ last'.cb = cb /\ object[cb] = "none"
             => \E other \in CBs \ {cb} :
                   /\ object[other] = "live"
                   /\ handle'[cb] = handle[other]
                   /\ state'[cb] = state[other]
                   /\ handle'[other] = VK_NULL_HANDLE
                   /\ state'[other] = "Invalid"]_vars

\* The only handle ever allocated was moved to another recorder and released
\* once by that recorder's destruction; the moved-from recorder is still
\* alive, Invalid and without a handle.
C6_Witness ==
    /\ last.op = "CommandBuffer_destroy"
    /\ \E h \in Handles :
        /\ allocated = {h}
        /\ freed[h] = 1
        /\ \E cb \in CBs :
            /\ object[cb] = "live"
            /\ state[cb] = "Invalid"
            /\ handle[cb] = VK_NULL_HANDLE

\* ---- C7 ----------------------------------------------------------------
\* Number of descriptor sets the commands cmds resolve for set index set.
Resolved(cmds, set) ==
    Cardinality({i \in DOMAIN cmds :
        cmds[i].cmd = "request_descriptor_set" /\ cmds[i].set = set})

\* Number of bind-descriptor-sets operations of cmds for set index set.
Bound(cmds, set) ==
    Cardinality({i \in DOMAIN cmds :
        cmds[i].cmd = "vkCmdBindDescriptorSets" /\ cmds[i].set = set})

IsFlushCall(cb) == last'.op \in FlushOps /\ last'.cb = cb /\ object[cb] = "live"

\* The set holds bindings and is dirty.
DirtySet(cb, set) ==
    /\ set \in DOMAIN resource_binding_state[cb].set_bindings
    /\ resource_binding_state[cb].set_bindings[set].dirty

\* The recorder tracks the set (a flush resolved it, and no flush since ran
\* under a pipeline layout that does not declare it) with a set layout that
\* is not the one the current pipeline layout declares for it.
LayoutChanged(cb, set) ==
    /\ set \in DOMAIN descriptor_set_layout_state[cb]
    /\ has_set_layout(pipeline_state[cb].pipeline_layout, set)
    /\ descriptor_set_layout_state[cb][set] #
           get_set_layout(pipeline_state[cb].pipeline_layout, set)

\* C7 (as claimed): the flush of a draw resolves exactly one descriptor set
\* for every dirty set index the pipeline layout declares and none for any
\* other set index.
C7_OnePerDirtyDeclaredSet ==
    [][\A cb \in CBs : IsFlushCall(cb) =>
          \A set \in SetIdx :
              Resolved(emitted', set) =
                  IF /\ DirtySet(cb, set)
                     /\ has_set_layout(pipeline_state[cb].pipeline_layout, set)
                  THEN 1 ELSE 0]_vars

\* C7 (amended): the flush of a draw or dispatch resolves exactly one
\* descriptor set for every set index that holds bindings, that the pipeline
\* layout declares and that is dirty or tracked in
\* descriptor_set_layout_state with another set layout, and none for any
\* other set index: none for a clean set whose tracked entry an earlier
\* flush erased, whatever set layout it was last resolved with.
C7_OnePerDirtyOrRelaidSet ==
    [][\A cb \in CBs : IsFlushCall(cb) =>
          \A set \in SetIdx :
              Resolved(emitted', set) =
                  IF /\ set \in DOMAIN resource_binding_state[cb].set_bindings
                     /\ has_set_layout(pipeline_state[cb].pipeline_layout, set)
                     /\ (DirtySet(cb, set) \/ LayoutChanged(cb, set))
                  THEN 1 ELSE 0]_vars

\* A dispatch under layout E, which declares set 1 with L2, has resolved
\* nothing: sets 0 and 1 held bindings and were clean, set 0 was tracked with
\* the set layout E declares and set 1 was not tracked.
C7_Witness ==
    /\ last.op = "dispatch"
    /\ last.before.pipeline_state.pipeline_layout = 5
    /\ DOMAIN last.before.resource_binding_state.set_bindings = {0, 1}
    /\ ~last.before.resource_binding_state.dirty
    /\ last.before.descriptor_set_layout_state = (0 :> 1)
    /\ \A set \in SetIdx : Resolved(emitted, set) = 0

\* ---- C8 ----------------------------------------------------------------
\* C8: when a set was bound with one set layout and the pipeline layout now
\* bound declares another set layout for it, the next flush resolves the set
\* against the new set layout and binds it, also when no binding is dirty.
C8_RelaidSetIsRebound ==
    [][\A cb \in CBs : IsFlushCall(cb) =>
          \A set \in SetIdx :
              LayoutChanged(cb, set) /\ ~resource_binding_state[cb].dirty
              => LET dsl == get_set_layout(pipeline_state[cb].pipeline_layout, set) IN
                 /\ \E i \in DOMAIN emitted' :
                       /\ emitted'[i].cmd = "request_descriptor_set"
                       /\ emitted'[i].set = set
                       /\ emitted'[i].descriptor_set.layout = dsl
                 /\ \E i \in DOMAIN emitted' :
                       /\ emitted'[i].cmd = "vkCmdBindDescriptorSets"
                       /\ emitted'[i].set = set
                       /\ emitted'[i].descriptor_set.layout = dsl
                       /\ emitted'[i].layout = pipeline_state[cb].pipeline_layout
                 /\ descriptor_set_layout_state'[cb][set] = dsl]_vars

\* Layout A (set 0: L1) was flushed, layout B (set 0: L2) was bound, and the
\* draw just made, with no dirty binding, bound set 0 resolved against L2.
C8_Witness ==
    /\ last.op = "draw"
    /\ last.before.descriptor_set_layout_state = (0 :> 1)
    /\ last.before.pipeline_state.pipeline_layout = 2
    /\ ~last.before.resource_binding_state.dirty
    /\ Bound(emitted, 0) = 1
    /\ Resolved(emitted, 0) = 1
    /\ descriptor_set_layout_state[last.cb][0] = 2

\* ---- C9 ----------------------------------------------------------------
\* The pipeline resolutions and pipeline binds among cmds.
PipelineWork(cmds) ==
    {i \in DOMAIN cmds :
        cmds[i].cmd \in {"request_graphics_pipeline", "request_compute_pipeline",
                         "vkCmdBindPipeline"}}

\* C9: a pipeline flush that directly follows a pipeline flush of the same
\* recorder at the same bind point, with no call at all in between, resolves
\* and binds nothing.
C9_SecondFlushDoesNothing ==
    [][\A cb \in CBs :
          /\ IsFlushCall(cb)
          /\ last.op \in FlushOps /\ last.cb = cb
          /\ (last.op \in {"dispatch", "dispatch_indirect"})
                 = (last'.op \in {"dispatch", "dispatch_indirect"})
          => PipelineWork(emitted') = {}]_vars

\* ---- C10 ---------------------------------------------------------------
SetStateOps ==
    {"set_viewport_state", "set_vertex_input_state", "set_input_assembly_state",
     "set_rasterization_state", "set_multisample_state", "set_depth_stencil_state",
     "set_color_blend_state", "bind_pipeline_layout"}

\* The step is a call of cb that sets a state block, or the pipeline
\* layout, to the value the PipelineState holds for it.
SetToCurrentValue(cb) ==
    LET ps == pipeline_state[cb] IN
    \/ \E v \in StateValues :
          \/ ps.blocks["viewport"] = v /\ set_viewport_state(cb, v)
          \/ ps.blocks["vertex_input"] = v /\ set_vertex_input_state(cb, v)
          \/ ps.blocks["input_assembly"] = v /\ set_input_assembly_state(cb, v)
          \/ ps.blocks["rasterization"] = v /\ set_rasterization_state(cb, v)
          \/ ps.blocks["multisample"] = v /\ set_multisample_state(cb, v)
          \/ ps.blocks["depth_stencil"] = v /\ set_depth_stencil_state(cb, v)
    \/ \E v \in ColorBlendStates :
          ps.color_blend_state = v /\ set_color_blend_state(cb, v)
    \/ \E pl \in PipelineLayoutIds :
          ps.pipeline_layout = pl /\ bind_pipeline_layout(cb, pl)

\* C10: a set_*_state or bind_pipeline_layout call given the value the
\* PipelineState already holds for that block (for the pipeline layout)
\* leaves the dirty flag as it was: a clean PipelineState stays clean.
C10_SameValueKeepsClean ==
    [][\A cb \in CBs :
          /\ last'.op \in SetStateOps /\ last'.cb = cb
          /\ SetToCurrentValue(cb)
          => pipeline_state'[cb].dirty = pipeline_state[cb].dirty]_vars

\* set_viewport_state has just been given the non-default value a clean
\* PipelineState already held, and the PipelineState is still clean.
C10_Witness ==
    /\ last.op = "set_viewport_state"
    /\ pipeline_state[last.cb].blocks["viewport"] = 1
    /\ pipeline_state[last.cb].blocks["multisample"] = 1
    /\ pipeline_state[last.cb].color_blend_state.logic_op = 1
    /\ ~pipeline_state[last.cb].dirty

\* ---- C11 ---------------------------------------------------------------
\* C11: right after begin_render_pass() and right after next_subpass() the
\* recorder's ResourceBindingState holds no bindings and no dirty flags and
\* its descriptor_set_layout_state is empty, whatever they held before.
C11_BindingsClearedPerSubpass ==
    [][\A cb \in CBs :
          IsCall("begin_render_pass", cb) \/ IsCall("next_subpass", cb)
          => /\ resource_binding_state'[cb].set_bindings = EmptyMap
             /\ ~resource_binding_state'[cb].dirty
             /\ resource_binding_state'[cb] = DefaultResourceBindingState
             /\ descriptor_set_layout_state'[cb] = EmptyMap]_vars

\* next_subpass() has just run on a recorder that held a flushed set 0 and
\* a dirty, not yet flushed set 1, and nothing of them is left.
C11_Witness ==
    /\ last.op = "next_subpass"
    /\ 0 \in DOMAIN last.before.descriptor_set_layout_state
    /\ 1 \in DOMAIN last.before.resource_binding_state.set_bindings
    /\ last.before.resource_binding_state.set_bindings[1].dirty
    /\ resource_binding_state[last.cb] = DefaultResourceBindingState
    /\ descriptor_set_layout_state[last.cb] = EmptyMap

\* ---- C12 ---------------------------------------------------------------
\* C12: right after begin_render_pass() the subpass index is 0 and the
\* colour-blend attachment count is the colour output count of subpass 0 of
\* the render pass just resolved; right after next_subpass() the subpass
\* index is one more than before and the attachment count is the colour
\* output count of that subpass.
C12_BlendAttachmentsFollowSubpass ==
    [][\A cb \in CBs :
          /\ IsCall("begin_render_pass", cb)
             => /\ pipeline_state'[cb].subpass_index = 0
                /\ pipeline_state'[cb].color_blend_state.attachments =
                       RenderPasses[current_render_pass'[cb].render_pass][1]
          /\ IsCall("next_subpass", cb)
             => /\ pipeline_state'[cb].subpass_index = pipeline_state[cb].subpass_index + 1
                /\ pipeline_state'[cb].color_blend_state.attachments =
                       RenderPasses[current_render_pass[cb].render_pass]
                                   [pipeline_state[cb].subpass_index + 2]]_vars

\* next_subpass() has just moved from a subpass with one colour output and
\* one blend attachment to a subpass with two of each.
C12_Witness ==
    /\ last.op = "next_subpass"
    /\ last.before.pipeline_state.subpass_index = 0
    /\ last.before.pipeline_state.color_blend_state.attachments = 1
    /\ current_render_pass[last.cb].render_pass = 1
    /\ pipeline_state[last.cb].subpass_index = 1
    /\ pipeline_state[last.cb].color_blend_state.attachments = 2

\* ---- C13 ---------------------------------------------------------------
DynamicBufferTypes == {"UNIFORM_BUFFER_DYNAMIC", "STORAGE_BUFFER_DYNAMIC"}

BufferTypes == {"UNIFORM_BUFFER", "STORAGE_BUFFER"} \cup DynamicBufferTypes

\* The (binding, array element) entries of resource_bindings that hold a
\* buffer on a binding the set layout dsl declares with a type of types.
BufferKeys(resource_bindings, dsl, types) ==
    {k \in DOMAIN resource_bindings :
        /\ resource_bindings[k].buffer # VK_NULL_HANDLE
        /\ k[1] \in DOMAIN DescriptorSetLayouts[dsl]
        /\ DescriptorSetLayouts[dsl][k[1]] \in types}

\* Binding-declaration order of two (binding, array element) pairs: a comes
\* before b.
DeclaredBefore(a, b) == a[1] < b[1] \/ (a[1] = b[1] /\ a[2] < b[2])

\* The flush walks the bindings of every set in key order: ascending
\* binding, then array element, as key-ordered containers hand them out.
KeyOrdered(order) ==
    \A i \in DOMAIN order :
        \A a, b \in DOMAIN order[i].bindings :
            a < b => DeclaredBefore(order[i].bindings[a], order[i].bindings[b])

\* The step is a draw or dispatch of cb whose flush walks the bindings in
\* key order.
FlushInKeyOrder(cb) ==
    \E order \in IterationOrders(resource_binding_state[cb].set_bindings) :
        /\ KeyOrdered(order)
        /\ \E bind_point \in BindPoints,
                 cmd \in {"vkCmdDraw", "vkCmdDrawIndexed", "vkCmdDrawIndexedIndirect",
                          "vkCmdDispatch", "vkCmdDispatchIndirect"} :
               flush_and_record_in(cb, bind_point, cmd, order)

\* The list offsets holds the bound offsets of the entries dyn of
\* resource_bindings in ascending (binding, array element) order.
InDeclarationOrder(offsets, dyn, resource_bindings) ==
    /\ Len(offsets) = Cardinality(dyn)
    /\ \A k \in dyn :
          offsets[1 + Cardinality({j \in dyn : DeclaredBefore(j, k)})]
              = resource_bindings[k].offset

\* C13: in every bind of a descriptor set a flush makes, each buffer bound
\* to a dynamic buffer binding has offset 0 in the buffer info the set was
\* resolved with, each buffer on a non-dynamic buffer binding keeps its
\* bound offset in the buffer info, and the dynamic-offsets list holds one
\* offset per dynamic binding; when the flush walks the bindings in key
\* order, the list holds the bound offsets of the dynamic bindings in
\* ascending (binding, array element) order.
C13_DynamicOffsets ==
    [][\A cb \in CBs : IsFlushCall(cb) =>
          \A i \in DOMAIN emitted' :
              emitted'[i].cmd = "vkCmdBindDescriptorSets" =>
                  LET rb == resource_binding_state[cb].set_bindings[emitted'[i].set]
                                .resource_bindings
                      ds == emitted'[i].descriptor_set
                      dyn == BufferKeys(rb, ds.layout, DynamicBufferTypes)
                      buf == BufferKeys(rb, ds.layout, BufferTypes)
                      offsets == emitted'[i].dynamic_offsets
                  IN  /\ DOMAIN ds.buffer_infos = buf
                      /\ \A k \in dyn : ds.buffer_infos[k].offset = 0
                      /\ \A k \in buf \ dyn : ds.buffer_infos[k].offset = rb[k].offset
                      /\ Len(offsets) = Cardinality(dyn)
                      /\ \A k \in dyn : \E j \in DOMAIN offsets : offsets[j] = rb[k].offset
                      /\ InDeclarationOrder(offsets, dyn, rb) \/ ~FlushInKeyOrder(cb)]_vars

\* A dispatch has just bound set 0 against L4 with buffers at offsets 8, 4
\* and 4 on the dynamic bindings (0, 0), (0, 1) and 2 and at offset 8 on the
\* non-dynamic binding 1: the list is the one a walk in key order gives.
C13_Witness ==
    /\ last.op = "dispatch"
    /\ \E i \in DOMAIN emitted :
          /\ emitted[i].cmd = "vkCmdBindDescriptorSets"
          /\ emitted[i].descriptor_set.layout = 4
          /\ emitted[i].dynamic_offsets = <<8, 4, 4>>
          /\ LET rb == resource_binding_state[last.cb].set_bindings[emitted[i].set]
                            .resource_bindings
             IN  /\ DOMAIN rb = {<<0, 0>>, <<0, 1>>, <<1, 0>>, <<2, 0>>}
                 /\ rb[<<0, 0>>].offset = 8
                 /\ rb[<<0, 1>>].offset = 4
                 /\ rb[<<2, 0>>].offset = 4
          /\ emitted[i].descriptor_set.buffer_infos[<<0, 0>>].offset = 0
          /\ emitted[i].descriptor_set.buffer_infos[<<1, 0>>].offset = 8

\* ---- C14 ---------------------------------------------------------------
\* The image layout the claim gives an image view on a binding of a type.
ClaimedImageLayout(type, image_view) ==
    IF type = "STORAGE_IMAGE" THEN "GENERAL"
    ELSE IF is_depth_stencil_format(ImageViewFormats[image_view])
    THEN "DEPTH_STENCIL_READ_ONLY_OPTIMAL"
    ELSE "SHADER_READ_ONLY_OPTIMAL"

\* C14: in every descriptor set a flush resolves, an image view bound to a
\* combined image sampler or input attachment binding has the depth-stencil
\* read-only layout if its format is a depth/stencil format and the shader
\* read-only layout otherwise, an image view on a storage image binding has
\* the general layout, and an image view on a binding of any other type has
\* no image info.
C14_ImageLayouts ==
    [][\A cb \in CBs : IsFlushCall(cb) =>
          \A i \in DOMAIN emitted' :
              emitted'[i].cmd = "request_descriptor_set" =>
                  LET rb == resource_binding_state[cb].set_bindings[emitted'[i].set]
                                .resource_bindings
                      ds == emitted'[i].descriptor_set
                      types == DescriptorSetLayouts[ds.layout]
                  IN  \A k \in DOMAIN rb :
                          rb[k].image_view # VK_NULL_HANDLE /\ k[1] \in DOMAIN types =>
                              IF types[k[1]] \in {"COMBINED_IMAGE_SAMPLER",
                                                  "INPUT_ATTACHMENT", "STORAGE_IMAGE"}
                              THEN /\ k \in DOMAIN ds.image_infos
                                   /\ ds.image_infos[k].imageView = rb[k].image_view
                                   /\ ds.image_infos[k].imageLayout =
                                          ClaimedImageLayout(types[k[1]], rb[k].image_view)
                              ELSE k \notin DOMAIN ds.image_infos]_vars

\* A draw has just resolved set 0 against L1 with a depth view on the
\* combined image sampler binding 1 and an image view on the buffer binding
\* 0, and set 1 against L3 with a colour view on the input attachment
\* binding 1.
C14_Witness ==
    /\ last.op = "draw"
    /\ \E i \in DOMAIN emitted :
          /\ emitted[i].cmd = "request_descriptor_set"
          /\ emitted[i].set = 0
          /\ emitted[i].descriptor_set.layout = 1
          /\ DOMAIN emitted[i].descriptor_set.image_infos = {<<1, 0>>}
          /\ emitted[i].descriptor_set.image_infos[<<1, 0>>].imageLayout
                 = "DEPTH_STENCIL_READ_ONLY_OPTIMAL"
          /\ <<0, 0>> \in DOMAIN last.before.resource_binding_state
                                     .set_bindings[0].resource_bindings
    /\ \E i \in DOMAIN emitted :
          /\ emitted[i].cmd = "request_descriptor_set"
          /\ emitted[i].set = 1
          /\ <<1, 0>> \in DOMAIN emitted[i].descriptor_set.image_infos
          /\ emitted[i].descriptor_set.image_infos[<<1, 0>>].imageLayout
                 = "SHADER_READ_ONLY_OPTIMAL"

\* ---- C15 ---------------------------------------------------------------
\* The reset mode the reset() call of this step was given: only
\* ResetIndividually reaches vkResetCommandBuffer.
GivenResetMode == IF emitted' = << >> THEN "ResetPool" ELSE "ResetIndividually"

\* C15: reset(mode) with a mode other than the reset mode of the recorder's
\* pool returns VK_NOT_READY.
C15_MismatchedResetNotReady ==
    [][\A cb \in CBs :
          IsCall("reset", cb) /\ GivenResetMode # pool_reset_mode[cb]
          => result' = "VK_NOT_READY"]_vars

\* ---- C16 ---------------------------------------------------------------
\* The declared push-constant ranges of pipeline layout pl that cover
\* [offset, offset + size).
CoveringRanges(pl, offset, size) ==
    {i \in DOMAIN PushConstantRanges[pl] :
        /\ PushConstantRanges[pl][i].offset <= offset
        /\ offset + size <= PushConstantRanges[pl][i].offset + PushConstantRanges[pl][i].size}

\* C16: push_constants(offset, values) returns nothing and leaves the
\* lifecycle state, PipelineState, ResourceBindingState,
\* descriptor_set_layout_state and the render-pass context as they were; if
\* no declared range of the bound pipeline layout covers (offset, size) it
\* records no vkCmdPushConstants, otherwise exactly one, for the bound
\* layout, with the covering range's stages, offset and size.
C16_PushConstants ==
    [][\A cb \in CBs : IsCall("push_constants", cb) =>
          LET pl == pipeline_state[cb].pipeline_layout
              offset == emitted'[1].offset
              size == emitted'[1].size
              covering == CoveringRanges(pl, offset, size)
              pushes == {i \in DOMAIN emitted' : emitted'[i].cmd = "vkCmdPushConstants"}
          IN  /\ result' = "void"
              /\ state' = state
              /\ tracked(cb)' = tracked(cb)
              /\ IF covering = {}
                 THEN pushes = {}
                 ELSE /\ Cardinality(pushes) = 1
                      /\ \A i \in pushes :
                            /\ emitted'[i].layout = pl
                            /\ emitted'[i].handle = handle[cb]
                            /\ \A r \in covering :
                                  PushConstantRanges[pl][r].stages \subseteq emitted'[i].stageFlags
                            /\ \A st \in emitted'[i].stageFlags : \E r \in covering :
                                  st \in PushConstantRanges[pl][r].stages]_vars

\* push_constants(8, 4 bytes) has just been skipped under layout C, whose
\* ranges end at byte 8, on a recorder with state set and a buffer bound.
C16_Witness ==
    /\ last.op = "push_constants"
    /\ pipeline_state[last.cb].pipeline_layout = 3
    /\ emitted = << [cmd |-> "LOGW", offset |-> 8, size |-> 4] >>
    /\ result = "void"
    /\ state[last.cb] = "Recording"
    /\ pipeline_state[last.cb].blocks["viewport"] = 1
    /\ resource_binding_state[last.cb].dirty

\* ---- C17 ---------------------------------------------------------------
DrawOps == {"draw", "draw_indexed", "draw_indexed_indirect"}

\* C17: when a draw flushes the pipeline inside a render pass, the colour
\* blend attachment count PipelineState holds is the colour output count of
\* the recorder's render pass at its subpass index.
C17_BlendCountAtFlush ==
    [][\A cb \in CBs :
          /\ IsFlushCall(cb)
          /\ last'.op \in DrawOps
          /\ IsObject(current_render_pass[cb].render_pass)
          => pipeline_state[cb].color_blend_state.attachments =
                 RenderPasses[current_render_pass[cb].render_pass]
                             [pipeline_state[cb].subpass_index + 1]]_vars

\* ---- C18 ---------------------------------------------------------------
\* C18: after a begin() that starts a recording and after next_subpass()
\* the pipeline layout, the fixed-function state blocks and the
\* specialization constants of PipelineState hold their defaults.
C18_PipelineStateResetPerSubpass ==
    [][\A cb \in CBs :
          \/ IsCall("begin", cb) /\ result' = "VK_SUCCESS"
          \/ IsCall("next_subpass", cb)
          => /\ pipeline_state'[cb].pipeline_layout = DefaultPipelineState.pipeline_layout
             /\ pipeline_state'[cb].blocks = DefaultPipelineState.blocks
             /\ pipeline_state'[cb].specialization = DefaultPipelineState.specialization
             /\ pipeline_state'[cb].color_blend_state.logic_op =
                    DefaultColorBlendState.logic_op]_vars

\* ---- C19 ---------------------------------------------------------------
\* The set indices for which the step, a flush of recorder cb, resolved a
\* descriptor set.
ResolvedNow(cb) ==
    IF last'.op \in FlushOps /\ last'.cb = cb
    THEN {set \in SetIdx : Resolved(emitted', set) > 0}
    ELSE {}

\* The step starts a recording or a subpass on recorder cb.
StartsSubpass(cb) ==
    \/ IsCall("begin", cb) /\ result' = "VK_SUCCESS"
    \/ IsCall("begin_render_pass", cb)
    \/ IsCall("next_subpass", cb)

\* The step binds a pipeline layout other than the bound one on recorder cb.
ChangesPipelineLayout(cb) ==
    /\ IsCall("bind_pipeline_layout", cb)
    /\ pipeline_state'[cb].pipeline_layout # pipeline_state[cb].pipeline_layout

\* C19 (as claimed): descriptor_set_layout_state has an entry for a set
\* index only if a descriptor set for it was resolved since the last
\* pipeline-layout change, begin(), begin_render_pass() or next_subpass():
\* each of these leaves no entry, and an entry appears only with a
\* resolution.
C19_EntriesSinceLayoutChange ==
    [][\A cb \in CBs :
          /\ DOMAIN descriptor_set_layout_state'[cb]
                 \subseteq DOMAIN descriptor_set_layout_state[cb] \cup ResolvedNow(cb)
          /\ StartsSubpass(cb) \/ ChangesPipelineLayout(cb)
             => descriptor_set_layout_state'[cb] = EmptyMap]_vars

\* C19 (amended): descriptor_set_layout_state has an entry for a set index
\* only if a descriptor set for it was resolved since the last begin(),
\* begin_render_pass() or next_subpass(); binding another pipeline layout
\* leaves the entries as they are, and the next flush leaves only entries of
\* set indices the bound layout declares.
C19_EntriesSinceSubpassStart ==
    [][\A cb \in CBs :
          /\ DOMAIN descriptor_set_layout_state'[cb]
                 \subseteq DOMAIN descriptor_set_layout_state[cb] \cup ResolvedNow(cb)
          /\ StartsSubpass(cb) => descriptor_set_layout_state'[cb] = EmptyMap
          /\ IsCall("bind_pipeline_layout", cb)
             => descriptor_set_layout_state'[cb] = descriptor_set_layout_state[cb]
          /\ IsFlushCall(cb)
             => \A set \in DOMAIN descriptor_set_layout_state'[cb] :
                    set \in DOMAIN PipelineLayouts[pipeline_state[cb].pipeline_layout]]_vars

\* Sets 0 and 1 were resolved under layout B and layout A, which declares
\* set 0 with another set layout and no set 1, has just been bound: both
\* entries are still there.
C19_Witness ==
    /\ last.op = "bind_pipeline_layout"
    /\ pipeline_state[last.cb].pipeline_layout = 1
    /\ descriptor_set_layout_state[last.cb] = (0 :> 2 @@ 1 :> 3)

\* ---- C20 ---------------------------------------------------------------
\* C20: a flush leaves the dirty flag of a dirty set whose set index the
\* bound pipeline layout does not declare as it was.
C20_SkippedSetStaysDirty ==
    [][\A cb \in CBs : IsFlushCall(cb) =>
          \A set \in SetIdx :
              DirtySet(cb, set) /\ ~has_set_layout(pipeline_state[cb].pipeline_layout, set)
              => resource_binding_state'[cb].set_bindings[set].dirty]_vars

\* ---- C21 ---------------------------------------------------------------
\* The descriptor work among cmds: descriptor-set requests and
\* bind-descriptor-sets operations.
DescriptorWork(cmds) ==
    {i \in DOMAIN cmds :
        cmds[i].cmd \in {"request_descriptor_set", "vkCmdBindDescriptorSets"}}

\* C21: a flush that finds ResourceBindingState not dirty and no tracked set
\* layout differing from the bound pipeline layout's resolves no descriptor
\* set, binds none and leaves every dirty flag of ResourceBindingState as it
\* was; and a draw or dispatch that directly follows another of the same
\* recorder binds no descriptor set.
C21_CleanFlushDoesNothing ==
    [][\A cb \in CBs : IsFlushCall(cb) =>
          /\ (/\ ~resource_binding_state[cb].dirty
              /\ \A set \in SetIdx : ~LayoutChanged(cb, set))
             => /\ DescriptorWork(emitted') = {}
                /\ resource_binding_state'[cb] = resource_binding_state[cb]
          /\ (last.op \in FlushOps /\ last.cb = cb)
             => DescriptorWork(emitted') = {}]_vars

\* A second draw in a row: the first found set 0 dirty and bound it, the
\* second found it clean and tracked and bound nothing.
C21_Witness ==
    /\ last.op = "draw"
    /\ ~last.before.resource_binding_state.dirty
    /\ 0 \in DOMAIN last.before.resource_binding_state.set_bindings
    /\ 0 \in DOMAIN last.before.descriptor_set_layout_state
    /\ last.before.descriptor_set_layout_state[0] =
           get_set_layout(last.before.pipeline_state.pipeline_layout, 0)
    /\ DescriptorWork(emitted) = {}
    /\ emitted # << >>

\* ---- C22 ---------------------------------------------------------------
\* The command each draw and dispatch call records.
DrawCommandOf ==
    [op \in FlushOps |->
        CASE op = "draw"                  -> "vkCmdDraw"
          [] op = "draw_indexed"          -> "vkCmdDrawIndexed"
          [] op = "draw_indexed_indirect" -> "vkCmdDrawIndexedIndirect"
          [] op = "dispatch"              -> "vkCmdDispatch"
          [] op = "dispatch_indirect"     -> "vkCmdDispatchIndirect"]

DrawCommands == {DrawCommandOf[op] : op \in FlushOps}

\* The positions in cmds of the commands named in names.
PositionsOf(cmds, names) == {i \in DOMAIN cmds : cmds[i].cmd \in names}

\* C22: what a draw or dispatch call emits is, in this order, the pipeline
\* request and bind (if any), the descriptor-set requests and binds (if any,
\* each bind covering one set index, no set index twice), and then the call's
\* own command, which is the last and the only draw or dispatch command.
C22_FlushesThenCommand ==
    [][\A cb \in CBs : IsFlushCall(cb) =>
          LET e == emitted'
              n == Len(e)
              pipeline == PositionsOf(e, {"request_graphics_pipeline",
                                          "request_compute_pipeline",
                                          "vkCmdBindPipeline"})
              descriptor == DescriptorWork(e)
              binds == PositionsOf(e, {"vkCmdBindDescriptorSets"})
          IN  /\ n >= 1
              /\ e[n].cmd = DrawCommandOf[last'.op]
              /\ PositionsOf(e, DrawCommands) = {n}
              /\ pipeline \cup descriptor = 1 .. (n - 1)
              /\ \A i \in pipeline, j \in descriptor : i < j
              /\ \A i \in binds : e[i].count = 1
              /\ \A i, j \in binds : e[i].set = e[j].set => i = j]_vars

\* An indirect indexed draw that bound a pipeline and both sets: seven
\* records, the draw command last.
C22_Witness ==
    /\ last.op = "draw_indexed_indirect"
    /\ Len(emitted) = 7
    /\ emitted[2].cmd = "vkCmdBindPipeline"
    /\ Bound(emitted, 0) = 1
    /\ Bound(emitted, 1) = 1
    /\ emitted[7].cmd = "vkCmdDrawIndexedIndirect"

\* ---- C23 ---------------------------------------------------------------
\* C23: end_render_pass() emits the end-render-pass command and nothing
\* else, and leaves the lifecycle state, PipelineState (dirty flag and subpass
\* index included), ResourceBindingState and descriptor_set_layout_state as
\* they were.
C23_EndRenderPassKeepsState ==
    [][\A cb \in CBs : IsCall("end_render_pass", cb) =>
          /\ emitted' = << [cmd |-> "vkCmdEndRenderPass", handle |-> handle[cb]] >>
          /\ state'[cb] = state[cb]
          /\ pipeline_state'[cb] = pipeline_state[cb]
          /\ resource_binding_state'[cb] = resource_binding_state[cb]
          /\ descriptor_set_layout_state'[cb] = descriptor_set_layout_state[cb]]_vars

\* A render pass ended in its second subpass with a dirty PipelineState, a
\* dirty binding and a tracked set layout, all still there.
C23_Witness ==
    /\ last.op = "end_render_pass"
    /\ state[last.cb] = "Recording"
    /\ pipeline_state[last.cb].dirty
    /\ pipeline_state[last.cb].subpass_index = 1
    /\ resource_binding_state[last.cb].dirty
    /\ descriptor_set_layout_state[last.cb] # EmptyMap

\* ---- C24 ---------------------------------------------------------------
\* C24: the render-pass context of a recorder refers to a render pass only
\* between begin_render_pass() (or the begin() of a secondary recorder, which
\* inherits it) and end_render_pass(): whenever a recorder that owns a
\* command buffer holds a render pass in current_render_pass, a render pass
\* instance is open in that command buffer, so the render pass a draw stamps
\* into its pipeline key is the active one.
C24_ContextOnlyInsideRenderPass ==
    \A cb \in CBs :
        /\ object[cb] = "live"
        /\ handle[cb] \in Handles
        /\ IsObject(current_render_pass[cb].render_pass)
        => render_pass_active[handle[cb]]

\* ---- C25 ---------------------------------------------------------------
\* C25: a call in which a cache request fails (the pipeline or a descriptor
\* set of a draw or dispatch, the render pass or the framebuffer of
\* begin_render_pass) ends at the failure with an exception to its caller:
\* nothing is emitted after the failed request, and the call emits no draw,
\* dispatch or begin-render-pass command.
C25_FailureEndsTheCall ==
    [][\A cb \in CBs :
          (IsFlushCall(cb) \/ IsCall("begin_render_pass", cb)) =>
          \A i \in DOMAIN emitted' :
              emitted'[i].cmd = "throw"
              => /\ result' = "exception"
                 /\ i = Len(emitted')
                 /\ PositionsOf(emitted', DrawCommands \cup {"vkCmdBeginRenderPass"}) = {}]_vars

\* A draw that bound its pipeline and the descriptor set of set 0 and then
\* failed to get the descriptor set of set 1.
C25_Witness ==
    /\ last.op = "draw"
    /\ result = "exception"
    /\ Len(emitted) = 5
    /\ emitted[2].cmd = "vkCmdBindPipeline"
    /\ Bound(emitted, 0) = 1
    /\ emitted[5] = Throw("request_descriptor_set")

\* ---- C26 ---------------------------------------------------------------
\* C26: when a draw or dispatch command is emitted, every set index that the
\* bound pipeline layout declares and that holds a binding has had a
\* descriptor set bound since the last begin(), begin_render_pass() or
\* next_subpass(), the latest of them resolved from the pipeline layout's
\* set layout and from the bindings the set holds now.
\* descriptor_set_layout_state is the recorder's account of these binds: it
\* is emptied by the three calls and gains the set layout of each descriptor
\* set the flush binds, and a set's dirty flag tells a binding made since.
C26_DeclaredSetsAreBound ==
    [][\A cb \in CBs : IsFlushCall(cb) /\ PositionsOf(emitted', DrawCommands) # {} =>
          \A set \in SetIdx :
              /\ has_set_layout(pipeline_state'[cb].pipeline_layout, set)
              /\ set \in DOMAIN resource_binding_state'[cb].set_bindings
              => /\ set \in DOMAIN descriptor_set_layout_state'[cb]
                 /\ descriptor_set_layout_state'[cb][set] =
                        get_set_layout(pipeline_state'[cb].pipeline_layout, set)
                 /\ ~resource_binding_state'[cb].set_bindings[set].dirty]_vars

\* ---- C27 ---------------------------------------------------------------
\* C27: after every descriptor flush each set index tracked in
\* descriptor_set_layout_state is declared by the bound pipeline layout and
\* tracked with that layout's set layout for the index; and whatever call was
\* made, each tracked set index has an entry in ResourceBindingState.
C27_TrackedSetsFollowLayout ==
    [][\A cb \in CBs : object[cb] = "live" =>
          /\ IsFlushCall(cb) =>
                 \A set \in DOMAIN descriptor_set_layout_state'[cb] :
                     /\ has_set_layout(pipeline_state'[cb].pipeline_layout, set)
                     /\ descriptor_set_layout_state'[cb][set] =
                            get_set_layout(pipeline_state'[cb].pipeline_layout, set)
          /\ DOMAIN descriptor_set_layout_state'[cb]
                 \subseteq DOMAIN resource_binding_state'[cb].set_bindings]_vars

\* A dispatch under layout A (set 0 only) by a recorder that tracked sets 0
\* and 1 with the set layouts of layout B: set 1 was dropped and set 0 is
\* tracked with A's set layout.
C27_Witness ==
    /\ last.op = "dispatch"
    /\ last.before.pipeline_state.pipeline_layout = 1
    /\ last.before.descriptor_set_layout_state = (0 :> 2 @@ 1 :> 3)
    /\ descriptor_set_layout_state[last.cb] = (0 :> 1)
    /\ DOMAIN resource_binding_state[last.cb].set_bindings = {0, 1}

\* ---- C28 ---------------------------------------------------------------
\* C28: when a draw command is emitted a pipeline has been bound at the
\* graphics bind point, and when a dispatch command is emitted a pipeline has
\* been bound at the compute bind point, in this recording (a bind after the
\* last change of PipelineState is such a bind); a dispatch after draws is
\* still preceded by a compute pipeline bind.
C28_PipelineBoundAtBindPoint ==
    [][\A cb \in CBs : IsFlushCall(cb) /\ PositionsOf(emitted', DrawCommands) # {} =>
          (IF last'.op \in DrawOps THEN "GRAPHICS" ELSE "COMPUTE")
              \in bound_pipeline'[handle[cb]]]_vars

\* ---- C29 ---------------------------------------------------------------
\* The primary recorder the secondary recorders are given.
GivenPrimary == 1

\* C29: after a successful begin() of a secondary recorder given a primary
\* recorder, the secondary's render pass and framebuffer are the primary's,
\* and the subpass index it declares in its inheritance info and holds in
\* its PipelineState is the primary's subpass index, however many
\* next_subpass() calls the primary has made.
C29_SecondaryInheritsSubpass ==
    [][\A cb \in CBs \ {GivenPrimary} :
          /\ IsCall("begin", cb)
          /\ level[cb] = "SECONDARY"
          /\ result' = "VK_SUCCESS"
          => /\ current_render_pass'[cb] = current_render_pass[GivenPrimary]
             /\ emitted'[1].renderPass = current_render_pass[GivenPrimary].render_pass
             /\ emitted'[1].framebuffer = current_render_pass[GivenPrimary].framebuffer
             /\ emitted'[1].subpass = pipeline_state[GivenPrimary].subpass_index
             /\ pipeline_state'[cb].subpass_index =
                    pipeline_state[GivenPrimary].subpass_index]_vars

====
